---- MODULE Spec2Model ----
(***************************************************************************)
(* Merlin, the SwarmOS controller daemon: the supervisor loop, the         *)
(* shutdown task, the proof watcher, the epoch manager and the IPFS        *)
(* publisher, as one state machine.  Every action of a task runs from one  *)
(* await (suspension point) of the Python code to the next one.            *)
(*                                                                         *)
(* Conventions.  A JSON object is a record; Python's None is the empty     *)
(* tuple <<>> and a present optional value v is <<v>>.  Money is kept in   *)
(* exact integers: rewards in cents, shares in hundredths.                 *)
(***************************************************************************)
EXTENDS Integers, Sequences, FiniteSets, TLC

(* ------------------------------ bounds -------------------------------- *)
MaxTime == 1
MaxEpochNumber == 3
MaxLedger == 4
MaxSignals == 1
MaxRestarts == 1
StartClock == 100
MaxNameNumber == 60
MaxAccum == 2
MaxItems == 3

(* ------------------------ program constants --------------------------- *)
\* epoch_duration_seconds as load_config reads it; the daemon of the model is run with
\* EPOCH_DURATION_SECONDS=1, so that one step of the clock reaches the seal deadline.
EpochDuration == 1
HeartbeatInterval == 30
DefaultProviderShare == 75
DefaultNetworkOpsShare == 25
DefaultRewardCents == 10

None == <<>>
Some(v) == <<v>>
IsNone(o) == o = <<>>
Val(o) == o[1]

Files == {"a", "b", "c"}
FileOrder == <<"a", "b", "c">>

RECURSIVE SeqToSet(_)
SeqToSet(s) == IF s = <<>> THEN {} ELSE {Head(s)} \cup SeqToSet(Tail(s))

(* ------------------------------ strings ------------------------------- *)
StartsWith(s, p) == Len(s) >= Len(p) /\ SubSeq(s, 1, Len(p)) = p
EndsWith(s, p) == Len(s) >= Len(p) /\ SubSeq(s, Len(s) - Len(p) + 1, Len(s)) = p

DigitChars == <<"0", "1", "2", "3", "4", "5", "6", "7", "8", "9">>

RECURSIVE IntToStr(_)
IntToStr(n) == IF n < 10 THEN DigitChars[n + 1]
               ELSE IntToStr(n \div 10) \o DigitChars[(n % 10) + 1]

RECURSIVE ZeroPad(_, _)
ZeroPad(s, width) == IF Len(s) >= width THEN s ELSE ZeroPad("0" \o s, width)

\* f"{n:04d}"
Format04d(n) == ZeroPad(IntToStr(n), 4)

\* f"epoch-{self.epoch_number:04d}"
FormatEpochId(n) == "epoch-" \o Format04d(n)

NATO_ALPHABET == <<"Alpha", "Bravo", "Charlie", "Delta", "Echo", "Foxtrot",
                   "Golf", "Hotel", "India", "Juliet", "Kilo", "Lima",
                   "Mike", "November", "Oscar", "Papa", "Quebec", "Romeo",
                   "Sierra", "Tango", "Uniform", "Victor", "Whiskey", "X-ray",
                   "Yankee", "Zulu">>

\* Mutant of get_epoch_name: the first epoch is named by the first letter.
get_epoch_name_FromAlpha(epoch_number) ==
    NATO_ALPHABET[((epoch_number + Len(NATO_ALPHABET) - 1) % Len(NATO_ALPHABET)) + 1]

\* Python lists are 0-based, TLA+ sequences 1-based.
get_epoch_name(epoch_number) == NATO_ALPHABET[(epoch_number % Len(NATO_ALPHABET)) + 1]

(* ------------------------------ parsing ------------------------------- *)
DigitValue(c) == CHOOSE i \in 0..9 : DigitChars[i + 1] = c
IsDigit(c) == \E i \in 1..10 : DigitChars[i] = c

RECURSIVE AllDigits(_)
AllDigits(s) == s = "" \/ (IsDigit(SubSeq(s, 1, 1)) /\ AllDigits(SubSeq(s, 2, Len(s))))

RECURSIVE StrToInt(_)
StrToInt(s) == IF s = "" THEN 0
               ELSE StrToInt(SubSeq(s, 1, Len(s) - 1)) * 10 + DigitValue(SubSeq(s, Len(s), Len(s)))

DotPos(s) == IF \E i \in 1..Len(s) : SubSeq(s, i, i) = "."
             THEN CHOOSE i \in 1..Len(s) : SubSeq(s, i, i) = "." /\ \A j \in 1..(i - 1) : SubSeq(s, j, j) # "."
             ELSE 0

\* float(s) for the decimal strings of the model, in cents: None when float() raises
\* ValueError.  Amounts are written with at most two fraction digits.
ParseFloatCents(s) ==
    LET d == DotPos(s)
        ip == IF d = 0 THEN s ELSE SubSeq(s, 1, d - 1)
        fp == IF d = 0 THEN "" ELSE SubSeq(s, d + 1, Len(s))
    IN  IF Len(ip) + Len(fp) = 0 \/ ~AllDigits(ip) \/ ~AllDigits(fp) \/ Len(fp) > 2
        THEN None
        ELSE Some(StrToInt(ip) * 100 + (IF Len(fp) = 1 THEN 10 * StrToInt(fp) ELSE StrToInt(fp)))

\* f"{x:.2f}" for an amount held in cents.
FormatCents(c) == IntToStr(c \div 100) \o "." \o ZeroPad(IntToStr(c % 100), 2)

(* ------------------------- worker-side documents ---------------------- *)
\* Proof snapshots as workers write them.  Every field that is present holds a value
\* of its JSON type; a missing key is a missing record field.  confidence is held in
\* hundredths.
MkProof(pid, provider, job_cid) ==
    [type |-> "proof", version |-> "1.0.0", proof_id |-> pid, job_cid |-> job_cid,
     output_cid |-> "bafyout", metrics |-> [inference_seconds |-> 1, confidence |-> 95],
     provider |-> provider, timestamp |-> StartClock, proof_hash |-> "0xabc", sig |-> "0xsig"]

WithoutKey(d, k) == [f \in DOMAIN d \ {k} |-> d[f]]

EmptyDoc == [k \in {} |-> 0]
ProofP1 == MkProof("p1", "alice.eth", "bafyjob1")
ProofP2 == MkProof("p2", "bob.eth", "bafyjob2")
ProofNoSig == WithoutKey(MkProof("p3", "bob.eth", "bafyjob1"), "sig")
ProofP4 == MkProof("p4", "bob.eth", "bafyjob1")
\* ProofNoSig as its worker writes it again, signed.
ProofP3 == MkProof("p3", "bob.eth", "bafyjob1")
\* A proof_id that begins with "0x" and is not an even number of hex digits.
ProofHexId == MkProof("0xabc", "alice.eth", "bafyjob1")

\* A JSON number where the schema wants a string.  The documents of the model hold it
\* as this string, which no JSON string of the model equals.
JsonNumber == "json:number"
IsJsonString(v) == v # JsonNumber
\* A proof whose proof_hash is a number.
ProofBadHash == [MkProof("p5", "alice.eth", "bafyjob2") EXCEPT !.proof_hash = JsonNumber]

\* What a worker may write under each file name of /swarmpool/proofs in the daemon
\* model.  The file name is chosen by the worker and need not be the document's
\* proof_id.
WorkerDocs(f) == IF f = "a" THEN {ProofP1, EmptyDoc}
                 ELSE IF f = "b" THEN {ProofP1, ProofP2, ProofNoSig} ELSE {}

\* Job snapshots: payment is tagged with its JSON kind.
MkJob(amount) == [type |-> "job", payment |-> [kind |-> "object", fields |-> [amount |-> amount]]]
JobNoPayment == [type |-> "job"]
JobNoAmount == [type |-> "job", payment |-> [kind |-> "object", fields |-> EmptyDoc]]
JobBadPayment == [type |-> "job", payment |-> [kind |-> "string", value |-> "free"]]

\* The job documents the store may hold for a job CID in the daemon model.
StoreJobs(job_cid) == IF job_cid = "bafyjob1" THEN {MkJob("1.00")} ELSE {MkJob("0.40")}

(* ----------------------------- schemas.py ----------------------------- *)
Has(d, k) == k \in DOMAIN d
\* proof.get(field) is truthy, for a string field
TruthyStr(d, k) == Has(d, k) /\ d[k] # ""
GetStr(d, k, default) == IF Has(d, k) THEN d[k] ELSE default

AlnumChars == {"a", "b", "c", "d", "e", "f", "g", "h", "i", "j", "k", "l", "m", "n", "o",
               "p", "q", "r", "s", "t", "u", "v", "w", "x", "y", "z",
               "A", "B", "C", "D", "E", "F", "G", "H", "I", "J", "K", "L", "M", "N", "O",
               "P", "Q", "R", "S", "T", "U", "V", "W", "X", "Y", "Z",
               "0", "1", "2", "3", "4", "5", "6", "7", "8", "9"}

\* re.compile(r'^(bafy|Qm)[a-zA-Z0-9]+').match(value)
CidPatternMatch(v) ==
    \/ StartsWith(v, "bafy") /\ Len(v) >= 5 /\ SubSeq(v, 5, 5) \in AlnumChars
    \/ StartsWith(v, "Qm") /\ Len(v) >= 3 /\ SubSeq(v, 3, 3) \in AlnumChars

RequiredStrings == {"proof_id", "job_cid", "output_cid", "provider", "proof_hash", "sig"}

\* The set of validation errors of a proof; validate_proof accepts when it is empty.
ProofErrors(proof) ==
    {e \in {"type", "timestamp", "metrics", "inference_seconds", "confidence",
            "confidence_range", "job_cid_format", "output_cid_format",
            "proof_hash_prefix", "sig_prefix", "provider_ens"} \cup RequiredStrings :
        \/ e = "type" /\ ~(Has(proof, "type") /\ proof.type = "proof")
        \/ e \in RequiredStrings /\ ~TruthyStr(proof, e)
        \/ e = "timestamp" /\ ~Has(proof, "timestamp")
        \/ e = "metrics" /\ ~Has(proof, "metrics")
        \/ e = "inference_seconds" /\ Has(proof, "metrics") /\ ~Has(proof.metrics, "inference_seconds")
        \/ e = "confidence" /\ Has(proof, "metrics") /\ ~Has(proof.metrics, "confidence")
        \/ e = "confidence_range" /\ Has(proof, "metrics") /\ Has(proof.metrics, "confidence")
              /\ (proof.metrics.confidence < 0 \/ proof.metrics.confidence > 100)
        \/ e = "job_cid_format" /\ TruthyStr(proof, "job_cid") /\ ~CidPatternMatch(proof.job_cid)
        \/ e = "output_cid_format" /\ TruthyStr(proof, "output_cid") /\ ~CidPatternMatch(proof.output_cid)
        \/ e = "proof_hash_prefix" /\ TruthyStr(proof, "proof_hash") /\ ~StartsWith(proof.proof_hash, "0x")
        \/ e = "sig_prefix" /\ TruthyStr(proof, "sig") /\ ~StartsWith(proof.sig, "0x")
        \/ e = "provider_ens" /\ TruthyStr(proof, "provider") /\ ~EndsWith(proof.provider, ".eth")}

validate_proof(proof) == ProofErrors(proof) = {}

\* validate_proof lines 62-80: cid_pattern.match(value), proof[field].startswith and
\* provider.endswith raise TypeError or AttributeError for a truthy value that is not
\* a string.
ValidateRaises(proof) ==
    \E k \in {"job_cid", "output_cid", "proof_hash", "sig", "provider"} :
        Has(proof, k) /\ ~IsJsonString(proof[k])

\* validate_epoch: the set of its errors.  `not epoch.get(field)` holds for a missing
\* key, an empty string and the number 0; the sig of the model is a tuple.
EpochErrors(epoch) ==
    {e \in {"type", "status", "epoch_id", "name", "started_at", "controller", "timestamp",
            "sig", "ended_at", "merkle_root", "settlements"} :
        \/ e = "type" /\ ~(Has(epoch, "type") /\ epoch.type = "epoch")
        \/ e = "status" /\ ~(Has(epoch, "status") /\ epoch.status \in {"active", "sealed"})
        \/ e \in {"epoch_id", "name", "controller"} /\ ~(Has(epoch, e) /\ epoch[e] # "")
        \/ e \in {"started_at", "timestamp"} /\ ~(Has(epoch, e) /\ epoch[e] # 0)
        \/ e = "sig" /\ ~(Has(epoch, "sig") /\ epoch.sig # <<>>)
        \/ /\ e \in {"ended_at", "merkle_root", "settlements"}
           /\ Has(epoch, "status") /\ epoch.status = "sealed"
           /\ ~(Has(epoch, e) /\ ~IsNone(epoch[e]))}

validate_epoch(epoch) == EpochErrors(epoch) = {}

(* ------------------------------ crypto.py ----------------------------- *)
\* keccak is an injective constructor over byte strings; byte strings are tagged tuples.
Utf8(s) == <<"utf8", <<s>>>>
FromHex(s) == <<"hex", <<s>>>>
Concat(a, b) == <<"cat", a, b>>
Keccak(bytes) == <<"keccak", bytes>>
\* "0x" + "0" * 64
ZeroRoot == <<"0x" \o ZeroPad("", 64)>>

HexChars == {"0", "1", "2", "3", "4", "5", "6", "7", "8", "9",
             "a", "b", "c", "d", "e", "f", "A", "B", "C", "D", "E", "F"}
\* bytes.fromhex(s) raises ValueError unless s is pairs of hex digits.
FromHexRaises(s) ==
    \/ Len(s) % 2 = 1
    \/ \E i \in 1..Len(s) : SubSeq(s, i, i) \notin HexChars

\* sorted(items): ascending, duplicates kept.  Identifiers are compared by their
\* position in ItemOrder, the lexicographic order of the identifiers of the model.
ItemOrder == <<"", "0xab", "0xabc", "p1", "p2", "p3", "p4", "p5", "unknown">>
Rank(x) == CHOOSE i \in 1..Len(ItemOrder) : ItemOrder[i] = x

RECURSIVE Insert(_, _)
Insert(x, s) == IF s = <<>> THEN <<x>>
                ELSE IF Rank(x) <= Rank(Head(s)) THEN <<x>> \o s
                ELSE <<Head(s)>> \o Insert(x, Tail(s))

\* Mutant of Sorted: the list is left in the order given.
Sorted_AsGiven(s) == s

RECURSIVE Sorted(_)
Sorted(s) == IF s = <<>> THEN <<>> ELSE Insert(Head(s), Sorted(Tail(s)))

LeafOf(item) == IF StartsWith(item, "0x") THEN FromHex(SubSeq(item, 3, Len(item)))
                ELSE Keccak(Utf8(item))

RECURSIVE PairUp(_)
PairUp(h) == IF h = <<>> THEN <<>>
             ELSE <<Keccak(Concat(h[1], h[2]))>> \o PairUp(SubSeq(h, 3, Len(h)))

RECURSIVE BuildTree(_)
BuildTree(h) == IF Len(h) <= 1 THEN h
                ELSE BuildTree(PairUp(IF Len(h) % 2 = 1 THEN Append(h, h[Len(h)]) ELSE h))

\* compute_merkle_root lines 119-121 raise for an item that is "0x" and bad hex.
MerkleRaises(items) ==
    \E i \in 1..Len(items) :
        StartsWith(items[i], "0x") /\ FromHexRaises(SubSeq(items[i], 3, Len(items[i])))

compute_merkle_root(items) ==
    IF items = <<>> THEN ZeroRoot
    ELSE LET sorted_items == Sorted(items)
             hashes == [i \in 1..Len(sorted_items) |-> LeafOf(sorted_items[i])]
         IN  <<"0x", BuildTree(hashes)[1]>>

\* Mutant of sign_and_add: the document is returned as it came.
sign_and_add_Unsigned(data) == data

\* sign_snapshot: the signature is a function of the document with "sig" removed.
sign_snapshot(data) == <<"eip191", Keccak(<<"json", WithoutKey(data, "sig")>>)>>
sign_and_add(data) == [k \in DOMAIN data \cup {"sig"} |->
                          IF k = "sig" THEN sign_snapshot(data) ELSE data[k]]

(* ------------------------------ epoch.py ------------------------------ *)
ControllerIdentity == "merlin.swarmos.eth"

\* open_new_epoch, lines 67-93: the signed document of epoch number n opened at time t.
NewEpochDoc(n, t) ==
    sign_and_add(
        [type |-> "epoch", version |-> "1.0.0", epoch_id |-> FormatEpochId(n),
         epoch_number |-> n, name |-> get_epoch_name(n), status |-> "active",
         started_at |-> t, ended_at |-> None, jobs_count |-> 0, proofs_count |-> 0,
         total_volume_usdc |-> "0.00", merkle_root |-> None, settlements |-> None,
         proofs |-> <<>>, controller |-> ControllerIdentity, timestamp |-> t])

\* Shares are held in hundredths: 1.0 is ShareScale.
ShareScale == DefaultProviderShare + DefaultNetworkOpsShare

JobTruthy(job) == ~IsNone(job) /\ Val(job) # EmptyDoc

\* job["payment"].get(...) raises AttributeError when payment is not an object.
RewardRaises(item) ==
    /\ JobTruthy(item.job) /\ Has(Val(item.job), "payment")
    /\ Val(item.job).payment.kind # "object"

\* The reward of an accumulator item, in cents.
RewardCents(item) ==
    IF JobTruthy(item.job) /\ Has(Val(item.job), "payment")
    THEN LET fields == Val(item.job).payment.fields
             parsed == ParseFloatCents(GetStr(fields, "amount", "0.10"))
         IN  IF IsNone(parsed) THEN DefaultRewardCents ELSE Val(parsed)
    ELSE DefaultRewardCents

\* Mutant of SumRewards: the total starts from the default reward.
SumRewards_FromDefault(proofs) == DefaultRewardCents * (Len(proofs) + 1)

RECURSIVE SumRewards(_)
SumRewards(proofs) == IF proofs = <<>> THEN 0
                      ELSE RewardCents(Head(proofs)) + SumRewards(Tail(proofs))

ProviderOf(item) == GetStr(item.proof, "provider", "unknown")

\* Mutant of ProviderEarnings: the provider's entry is assigned instead of added to.
ProviderEarnings_Overwrite(proofs, provider, share) ==
    LET own == SelectSeq(proofs, LAMBDA item : ProviderOf(item) = provider)
    IN  IF own = <<>> THEN 0 ELSE RewardCents(own[Len(own)]) * share

RECURSIVE ProviderEarnings(_, _, _)
ProviderEarnings(proofs, provider, share) ==
    IF proofs = <<>> THEN 0
    ELSE (IF ProviderOf(Head(proofs)) = provider THEN RewardCents(Head(proofs)) * share ELSE 0)
         + ProviderEarnings(Tail(proofs), provider, share)

SettlementsRaise(proofs) == \E i \in 1..Len(proofs) : RewardRaises(proofs[i])

\* Mutant of compute_settlements: provider_count counts the proofs.
compute_settlements_CountsProofs(proofs, p_share, n_share) ==
    LET total == SumRewards(proofs)
        names == {ProviderOf(proofs[i]) : i \in 1..Len(proofs)}
    IN  [total_volume_cents |-> total,
         total_volume |-> total * ShareScale,
         provider_pool |-> total * p_share,
         network_ops |-> total * n_share,
         providers |-> [p \in names |-> ProviderEarnings(proofs, p, p_share)],
         provider_count |-> Len(proofs)]

\* _compute_settlements: amounts in 1/ShareScale cents, total_volume_cents in cents.
compute_settlements(proofs, p_share, n_share) ==
    LET total == SumRewards(proofs)
        names == {ProviderOf(proofs[i]) : i \in 1..Len(proofs)}
    IN  [total_volume_cents |-> total,
         total_volume |-> total * ShareScale,
         provider_pool |-> total * p_share,
         network_ops |-> total * n_share,
         providers |-> [p \in names |-> ProviderEarnings(proofs, p, p_share)],
         provider_count |-> Cardinality(names)]

\* Mutant of ProofIdsOf: the list is built from the last item to the first.
ProofIdsOf_Reversed(proofs) ==
    [i \in 1..Len(proofs) |-> GetStr(proofs[Len(proofs) + 1 - i].proof, "proof_id", "")]

\* Mutant of ProofIdsOf: the list misses the item appended last.
ProofIdsOf_Stale(proofs) ==
    [i \in 1..(IF proofs = <<>> THEN 0 ELSE Len(proofs) - 1) |->
        GetStr(proofs[i].proof, "proof_id", "")]

ProofIdsOf(proofs) == [i \in 1..Len(proofs) |-> GetStr(proofs[i].proof, "proof_id", "")]

\* seal_current_epoch raises before its publish: in _compute_settlements (line 183)
\* or in compute_merkle_root (line 193).
SealRaises(proofs) == SettlementsRaise(proofs) \/ MerkleRaises(ProofIdsOf(proofs))

\* Mutant of SealedDoc: the overlay also stamps started_at with the time of the seal.
SealedDoc_Restamped(epoch, proofs, t, p_share, n_share) ==
    LET settlements == compute_settlements(proofs, p_share, n_share)
        proof_cids == ProofIdsOf(proofs)
        merkle_root == IF proof_cids # <<>> THEN compute_merkle_root(proof_cids) ELSE ZeroRoot
    IN  sign_and_add(
          [k \in DOMAIN epoch |->
             CASE k = "status" -> "sealed"
               [] k \in {"started_at", "timestamp"} -> t
               [] k = "ended_at" -> Some(t)
               [] k \in {"jobs_count", "proofs_count"} -> Len(proofs)
               [] k = "total_volume_usdc" -> FormatCents(settlements.total_volume_cents)
               [] k = "merkle_root" -> Some(merkle_root)
               [] k = "settlements" -> Some(settlements)
               [] k = "proofs" -> proof_cids
               [] OTHER -> epoch[k]])

\* seal_current_epoch, lines 179-212: the signed sealed document.
SealedDoc(epoch, proofs, t, p_share, n_share) ==
    LET settlements == compute_settlements(proofs, p_share, n_share)
        proof_cids == ProofIdsOf(proofs)
        merkle_root == IF proof_cids # <<>> THEN compute_merkle_root(proof_cids) ELSE ZeroRoot
    IN  sign_and_add(
          [k \in DOMAIN epoch |->
             CASE k = "status" -> "sealed"
               [] k = "ended_at" -> Some(t)
               [] k = "jobs_count" -> Len(proofs)
               [] k = "proofs_count" -> Len(proofs)
               [] k = "total_volume_usdc" -> FormatCents(settlements.total_volume_cents)
               [] k = "merkle_root" -> Some(merkle_root)
               [] k = "settlements" -> Some(settlements)
               [] k = "proofs" -> proof_cids
               [] k = "timestamp" -> t
               [] OTHER -> epoch[k]])

(* ----------------------------- publisher.py --------------------------- *)
EpochsDir == "/swarmledger/epochs"
CanonicalPath(directory, snapshot_id) == directory \o "/" \o snapshot_id \o ".json"

\* The store's content address of a document (injective).
CidOf(data) == <<"bafy", data>>

\* A Python dict literal: a later pair with the same key replaces the value.
RECURSIVE DictLiteral(_)
DictLiteral(pairs) ==
    IF pairs = <<>> THEN <<>>
    ELSE LET init == DictLiteral(SubSeq(pairs, 1, Len(pairs) - 1))
             last == pairs[Len(pairs)]
         IN  IF \E i \in 1..Len(init) : init[i][1] = last[1]
             THEN [i \in 1..Len(init) |-> IF init[i][1] = last[1] THEN last ELSE init[i]]
             ELSE Append(init, last)

\* publish_snapshot, line 152: params of the files/cp request.
CpParams(cid, canonical_path) ==
    DictLiteral(<<<<"arg", [ipfs |-> cid]>>, <<"arg", [path |-> canonical_path]>>>>)

\* The store's files/cp: needs a source and a destination that does not exist yet;
\* anything else is answered with an error status and changes nothing.
StoreFilesCp(files, params) ==
    LET args == [i \in 1..Len(params) |-> params[i][2]]
    IN  IF Len(args) = 2 /\ Has(args[1], "ipfs") /\ Has(args[2], "path")
           /\ args[2].path \notin DOMAIN files
        THEN [q \in DOMAIN files \cup {args[2].path} |->
                 IF q = args[2].path THEN args[1].ipfs ELSE files[q]]
        ELSE files

StoreFilesRm(files, path) == [q \in DOMAIN files \ {path} |-> files[q]]

\* What the network and the store may do to the four requests of publish_snapshot.
PublishOutcomes == [add : BOOLEAN, rm : BOOLEAN, cp : {"sent", "raise"}, pin : BOOLEAN]
AllGood == [add |-> TRUE, rm |-> TRUE, cp |-> "sent", pin |-> TRUE]
\* The outcomes the daemon model explores: every request answered, add refused, the
\* connection lost during files/cp.
DaemonOutcomes == {AllGood, [AllGood EXCEPT !.add = FALSE], [AllGood EXCEPT !.cp = "raise"]}

\* publish_snapshot: [raised, cid, files, pinned] for one outcome of its requests.
publish_snapshot(data, directory, snapshot_id, o, files, pinned) ==
    LET cid == CidOf(data)
        canonical_path == CanonicalPath(directory, snapshot_id)
        files1 == IF o.rm THEN StoreFilesRm(files, canonical_path) ELSE files
    IN  IF ~o.add THEN [raised |-> TRUE, cid |-> None, files |-> files, pinned |-> pinned]
        ELSE IF o.cp = "raise"
        THEN [raised |-> TRUE, cid |-> None, files |-> files1, pinned |-> pinned]
        ELSE [raised |-> FALSE, cid |-> Some(cid),
              files |-> StoreFilesCp(files1, CpParams(cid, canonical_path)),
              pinned |-> IF o.pin THEN pinned \cup {cid} ELSE pinned]

publish_epoch(epoch_data, o, files, pinned) ==
    publish_snapshot(epoch_data, EpochsDir, GetStr(epoch_data, "epoch_id", "unknown"),
                     o, files, pinned)

\* Mutant of pubsub_publish: without the except clause.
pubsub_publish_Propagates(post_ok) == [raised |-> ~post_ok]

\* pubsub_publish: session.post fails or not; `except Exception` (line 273) catches
\* what the body raises.
pubsub_publish(post_ok) ==
    LET body_raised == ~post_ok
        caught == body_raised
    IN  [raised |-> body_raised /\ ~caught]

(* ------------------------------- state -------------------------------- *)
VARIABLES
    \* the object store and the clock
    proofsDir,            \* /swarmpool/proofs: file name -> optional document
    files,                \* /swarmledger/epochs: mutable path -> CID
    pinned,               \* pinned CIDs
    now,                  \* wall clock, seconds
    \* MerlinConfig
    provider_share, network_ops_share,
    \* Merlin
    running, last_heartbeat,
    \* history: the times at which this process published a heartbeat
    heartbeats,
    \* EpochManager
    epoch_number, current_epoch, current_epoch_id, epoch_started_at,
    current_proofs, processed_proof_ids,
    \* ProofWatcher
    seen_proofs,
    \* the main task (main -> start -> _run_loop): the await it is suspended at, its locals
    pc, in_start, proof_ids, new_proofs, pub_doc,
    \* the tasks created by signal_handler, each running stop()
    stop,
    \* history: documents publish_epoch returned a CID for, per process run
    ledger, run,
    \* history: how often poll returned each identifier in this process; the current
    \* poll's listing and failed fetches; the identifiers a fetch of this process failed for
    returned, poll_listed, poll_failed, ever_failed,
    \* whether this specification records the watcher's history
    watching,
    \* inputs and result of the pure functions checked on their own
    fn_in, fn_out,
    \* history: the announcements of epochs in the order pubsub_publish was called with
    \* them, each with the number of epoch documents published before it; and how
    \* many of their POST requests failed
    announced, lost,
    \* history: the file name and document of each proof poll appended to its result,
    \* and the documents process_proof was called with, in this process
    polled, handed

store_vars == <<proofsDir, files, pinned, now>>
config_vars == <<provider_share, network_ops_share, watching>>
manager_vars == <<epoch_number, current_epoch, current_epoch_id, epoch_started_at,
                  current_proofs, processed_proof_ids>>
watcher_vars == <<seen_proofs, returned, poll_listed, poll_failed, ever_failed>>
task_vars == <<pc, in_start, proof_ids, new_proofs, pub_doc, last_heartbeat, heartbeats>>
fn_vars == <<fn_in, fn_out>>
history_vars == <<announced, lost, polled, handed>>
vars == <<store_vars, config_vars, manager_vars, watcher_vars, task_vars,
          running, stop, ledger, run, fn_vars, history_vars>>

Signals == 1..MaxSignals
\* A stop() task: where it is suspended, the document it is publishing, and (history)
\* the current epoch and its accepted proof_ids when its signal arrived.
StopIdle == [pc |-> "none", doc |-> None, at |-> None]

\* The state of a freshly constructed process (Merlin.__init__ and its components).
FreshProcess ==
    /\ running = FALSE /\ last_heartbeat = None /\ heartbeats = <<>>
    /\ epoch_number = 0 /\ current_epoch = None /\ current_epoch_id = None
    /\ epoch_started_at = None /\ current_proofs = <<>> /\ processed_proof_ids = {}
    /\ seen_proofs = {}
    /\ pc = "init" /\ in_start = TRUE /\ proof_ids = <<>> /\ new_proofs = <<>>
    /\ pub_doc = None
    /\ stop = [i \in Signals |-> StopIdle]
    /\ returned = [f \in Files |-> 0] /\ poll_listed = {} /\ poll_failed = {}
    /\ ever_failed = {}
    /\ polled = <<>> /\ handed = <<>>

\* The store before the daemon first runs, and a fresh process.
InitProcess ==
    /\ proofsDir = [f \in Files |-> None]
    /\ files = <<>> /\ pinned = {}
    /\ now = StartClock
    /\ FreshProcess
    /\ ledger = <<>> /\ run = 0 /\ announced = <<>> /\ lost = 0

\* MerlinConfig with the defaults of load_config.
DefaultConfig ==
    /\ provider_share = DefaultProviderShare
    /\ network_ops_share = DefaultNetworkOpsShare

InitDaemon == InitProcess /\ DefaultConfig /\ fn_in = None /\ fn_out = None

Init == InitDaemon /\ watching = FALSE

Alive == pc \notin {"exited", "crashed"}

\* asyncio.run cancels the tasks still pending when main() returns or raises.
CancelPending(st) ==
    [i \in DOMAIN st |-> IF st[i].pc \in {"created", "seal_pub", "seal_ann"}
                         THEN [st[i] EXCEPT !.pc = "cancelled", !.doc = None] ELSE st[i]]

(* ------------- the synchronous code between two awaits ---------------- *)
\* Each Go* operator runs the main task from a point of the tick body to its next
\* await and fixes task_vars'.

LastHeartbeat == IF IsNone(last_heartbeat) THEN 0 ELSE Val(last_heartbeat)

\* Mutant of GoHeartbeat: the time of the heartbeat is not stored.
GoHeartbeat_NoStamp ==
    /\ proof_ids' = <<>> /\ new_proofs' = <<>> /\ pub_doc' = None
    /\ in_start' = in_start
    /\ last_heartbeat' = Some(LastHeartbeat)
    /\ IF now - LastHeartbeat < HeartbeatInterval
       THEN pc' = "sleep" /\ heartbeats' = heartbeats
       ELSE pc' = "hb" /\ heartbeats' = Append(heartbeats, now)

\* _publish_heartbeat up to its pubsub await, else on to asyncio.sleep.
GoHeartbeat ==
    /\ proof_ids' = <<>> /\ new_proofs' = <<>> /\ pub_doc' = None
    /\ in_start' = in_start
    /\ IF now - LastHeartbeat < HeartbeatInterval
       THEN pc' = "sleep" /\ last_heartbeat' = Some(LastHeartbeat) /\ heartbeats' = heartbeats
       ELSE pc' = "hb" /\ last_heartbeat' = Some(now) /\ heartbeats' = Append(heartbeats, now)

\* Mutant of should_seal: strict comparison.
should_seal_Strict == ~IsNone(epoch_started_at) /\ now - Val(epoch_started_at) > EpochDuration

should_seal == ~IsNone(epoch_started_at) /\ now - Val(epoch_started_at) >= EpochDuration

\* _run_loop step 2 with the accumulator cp: seal_current_epoch up to its publish.
GoSealCheck(cp) ==
    IF should_seal
    THEN /\ proof_ids' = <<>> /\ new_proofs' = <<>>
         /\ in_start' = in_start /\ last_heartbeat' = last_heartbeat /\ heartbeats' = heartbeats
         /\ IF SealRaises(cp)
            THEN pc' = "backoff" /\ pub_doc' = None
            ELSE /\ pc' = "seal_pub"
                 /\ pub_doc' = Some(SealedDoc(Val(current_epoch), cp, now,
                                              provider_share, network_ops_share))
    ELSE GoHeartbeat

\* Mutant of Rejected: the duplicate check is not made.
Rejected_NoDedup(proof, processed) == ~validate_proof(proof) \/ ~TruthyStr(proof, "sig")

\* Mutant of Rejected: only the duplicate check is made.
Rejected_DedupOnly(proof, processed) == GetStr(proof, "proof_id", "unknown") \in processed

\* process_proof lines 131-147: the proof is rejected before any await.
Rejected(proof, processed) ==
    \/ GetStr(proof, "proof_id", "unknown") \in processed
    \/ ~validate_proof(proof)
    \/ ~TruthyStr(proof, "sig")

\* process_proof raises: the proof is not a duplicate (line 134 returns first) and
\* validate_proof raises at line 138.
ProcessRaises(proof, processed) ==
    /\ GetStr(proof, "proof_id", "unknown") \notin processed
    /\ ValidateRaises(proof)

RECURSIVE SkipRejected(_, _)
SkipRejected(proofs, processed) ==
    IF proofs = <<>> THEN <<>>
    ELSE IF ~ProcessRaises(Head(proofs), processed) /\ Rejected(Head(proofs), processed)
    THEN SkipRejected(Tail(proofs), processed)
    ELSE proofs

\* the for loop of _run_loop over the proofs left, up to the fetch_job of the first
\* proof that passes the checks, or to the back-off when process_proof raises (the
\* exception leaves the for loop, line 153).
GoProcess(proofs, cp, processed) ==
    LET rest == SkipRejected(proofs, processed)
        called == SubSeq(proofs, 1, Len(proofs) - Len(rest) + (IF rest = <<>> THEN 0 ELSE 1))
    IN  /\ handed' = IF watching THEN handed \o called ELSE handed
        /\ IF rest = <<>> THEN GoSealCheck(cp)
           ELSE /\ proof_ids' = <<>> /\ pub_doc' = None /\ in_start' = in_start
                /\ last_heartbeat' = last_heartbeat /\ heartbeats' = heartbeats
                /\ IF ProcessRaises(Head(rest), processed)
                   THEN pc' = "backoff" /\ new_proofs' = <<>>
                   ELSE pc' = "job" /\ new_proofs' = rest

\* Mutant of SkipSeen: the seen set is not consulted.
SkipSeen_Refetch(ids, seen) == ids

RECURSIVE SkipSeen(_, _)
SkipSeen(ids, seen) ==
    IF ids = <<>> THEN <<>>
    ELSE IF Head(ids) \in seen THEN SkipSeen(Tail(ids), seen) ELSE ids

\* the for loop of poll over the identifiers left, up to the next fetch_proof; when
\* none is left poll returns and the tick goes on.
GoFetch(ids, seen, found) ==
    LET rest == SkipSeen(ids, seen)
    IN  IF rest = <<>> THEN GoProcess(found, current_proofs, processed_proof_ids)
        ELSE /\ pc' = "fetch" /\ proof_ids' = rest /\ new_proofs' = found
             /\ pub_doc' = None /\ in_start' = in_start /\ last_heartbeat' = last_heartbeat /\ heartbeats' = heartbeats
             /\ handed' = handed

\* Mutant of NextEpochNumber: the counter is not advanced.
NextEpochNumber_Stuck(n) == n

\* open_new_epoch line 66.
NextEpochNumber(n) == n + 1

\* open_new_epoch lines 66-94, up to the publish.
GoOpen ==
    /\ epoch_number < MaxEpochNumber
    /\ epoch_number' = NextEpochNumber(epoch_number)
    /\ pub_doc' = Some(NewEpochDoc(epoch_number', now))
    /\ pc' = "open_pub"
    /\ proof_ids' = <<>> /\ new_proofs' = <<>>
    /\ in_start' = in_start /\ last_heartbeat' = last_heartbeat /\ heartbeats' = heartbeats

\* `while self.running` of _run_loop: into poll up to list_proofs, or out of the process.
GoWhile ==
    /\ proof_ids' = <<>> /\ new_proofs' = <<>> /\ pub_doc' = None
    /\ in_start' = FALSE /\ last_heartbeat' = last_heartbeat /\ heartbeats' = heartbeats
    /\ IF running THEN pc' = "list" /\ stop' = stop
       ELSE pc' = "exited" /\ stop' = CancelPending(stop)

(* ------------------------------ main task ----------------------------- *)
LedgerEntry(doc, by) == [doc |-> doc, run |-> run, by |-> by]

\* The message handed to pubsub_publish after the publish that made the ledger
\* `published` long: its arguments are evaluated when publish_epoch has returned.
\* jobs_count is None in the message of an open.
Announcement(topic, epoch_id, jobs_count, published) ==
    [topic |-> topic, epoch_id |-> epoch_id, jobs_count |-> jobs_count,
     after |-> published, run |-> run]

\* Merlin.start up to the awaits of init_directories.
Start ==
    /\ pc = "init"
    /\ running' = TRUE
    /\ pc' = "dirs"
    /\ UNCHANGED <<store_vars, config_vars, manager_vars, watcher_vars, in_start,
                   proof_ids, new_proofs, pub_doc, last_heartbeat, heartbeats, stop, ledger, run, fn_vars, history_vars>>

\* init_directories returns (its errors are ignored); ensure_active_epoch opens.
EnsureActiveEpoch ==
    /\ pc = "dirs"
    /\ IsNone(current_epoch)
    /\ GoOpen
    /\ UNCHANGED <<store_vars, config_vars, current_epoch, current_epoch_id,
                   epoch_started_at, current_proofs, processed_proof_ids, watcher_vars,
                   running, stop, ledger, run, fn_vars, history_vars>>

\* Mutant of OpenPublishFails: the exception leaves the loop as it leaves start().
OpenPublishFails_Exits(o) ==
    /\ pc = "open_pub"
    /\ LET r == publish_epoch(Val(pub_doc), o, files, pinned)
       IN  /\ r.raised
           /\ files' = r.files /\ pinned' = r.pinned
    /\ pub_doc' = None
    /\ pc' = "crashed" /\ stop' = CancelPending(stop)
    /\ UNCHANGED <<proofsDir, now, config_vars, manager_vars, watcher_vars, in_start,
                   proof_ids, new_proofs, last_heartbeat, heartbeats, running, ledger, run,
                   fn_vars, history_vars>>

\* open_new_epoch: publish_epoch raises.  In start() the exception leaves main().
OpenPublishFails(o) ==
    /\ pc = "open_pub"
    /\ LET r == publish_epoch(Val(pub_doc), o, files, pinned)
       IN  /\ r.raised
           /\ files' = r.files /\ pinned' = r.pinned
    /\ pub_doc' = None
    /\ IF in_start THEN pc' = "crashed" /\ stop' = CancelPending(stop)
       ELSE pc' = "backoff" /\ stop' = stop
    /\ UNCHANGED <<proofsDir, now, config_vars, manager_vars, watcher_vars, in_start,
                   proof_ids, new_proofs, last_heartbeat, heartbeats, running, ledger, run, fn_vars, history_vars>>

\* Mutant of OpenPublished: the processed set is kept over the open.
OpenPublished_KeepsProcessed(o) ==
    /\ pc = "open_pub"
    /\ Len(ledger) < MaxLedger
    /\ LET r == publish_epoch(Val(pub_doc), o, files, pinned)
       IN  /\ ~r.raised
           /\ files' = r.files /\ pinned' = r.pinned
    /\ current_epoch' = pub_doc
    /\ current_epoch_id' = Some(Val(pub_doc).epoch_id)
    /\ epoch_started_at' = Some(Val(pub_doc).started_at)
    /\ current_proofs' = <<>>
    /\ ledger' = Append(ledger, LedgerEntry(Val(pub_doc), "main"))
    /\ announced' = Append(announced,
                           Announcement("opened", Val(pub_doc).epoch_id, None, Len(ledger')))
    /\ pc' = "open_ann"
    /\ UNCHANGED <<proofsDir, now, config_vars, epoch_number, processed_proof_ids,
                   watcher_vars, in_start, proof_ids, new_proofs, pub_doc, last_heartbeat,
                   heartbeats, running, stop, run, fn_vars, lost, polled, handed>>

\* open_new_epoch: publish_epoch returns, lines 96-101 update the manager.
OpenPublished(o) ==
    /\ pc = "open_pub"
    /\ Len(ledger) < MaxLedger
    /\ LET r == publish_epoch(Val(pub_doc), o, files, pinned)
       IN  /\ ~r.raised
           /\ files' = r.files /\ pinned' = r.pinned
    /\ current_epoch' = pub_doc
    /\ current_epoch_id' = Some(Val(pub_doc).epoch_id)
    /\ epoch_started_at' = Some(Val(pub_doc).started_at)
    /\ current_proofs' = <<>>
    /\ processed_proof_ids' = {}
    /\ ledger' = Append(ledger, LedgerEntry(Val(pub_doc), "main"))
    /\ announced' = Append(announced,
                           Announcement("opened", Val(pub_doc).epoch_id, None, Len(ledger')))
    /\ pc' = "open_ann"
    /\ UNCHANGED <<proofsDir, now, config_vars, epoch_number, watcher_vars, in_start,
                   proof_ids, new_proofs, pub_doc, last_heartbeat, heartbeats, running, stop, run,
                   fn_vars, lost, polled, handed>>

\* What an exception does to the main task: it leaves start() and main(), or it is
\* caught by the loop, which backs off.
MainRaises ==
    /\ proof_ids' = <<>> /\ new_proofs' = <<>> /\ pub_doc' = None
    /\ in_start' = in_start /\ last_heartbeat' = last_heartbeat /\ heartbeats' = heartbeats
    /\ IF in_start THEN pc' = "crashed" /\ stop' = CancelPending(stop)
       ELSE pc' = "backoff" /\ stop' = stop

\* The announcement on epochs/opened returns; start() goes on to _run_loop, a tick
\* goes on to the heartbeat.
OpenAnnounced(post_ok) ==
    /\ pc = "open_ann"
    /\ lost' = IF post_ok THEN lost ELSE lost + 1
    /\ IF pubsub_publish(post_ok).raised THEN MainRaises
       ELSE IF in_start THEN GoWhile ELSE GoHeartbeat /\ stop' = stop
    /\ UNCHANGED <<store_vars, config_vars, manager_vars, watcher_vars, running,
                   ledger, run, fn_vars, announced, polled, handed>>

\* asyncio.sleep returns (poll interval or back-off).
Wake ==
    /\ pc \in {"sleep", "backoff"}
    /\ GoWhile
    /\ UNCHANGED <<store_vars, config_vars, manager_vars, watcher_vars, running,
                   ledger, run, fn_vars, history_vars>>

\* list_directory: the entries in listing order, or [] on any failure.
Listing == SelectSeq(FileOrder, LAMBDA f : ~IsNone(proofsDir[f]))

PollListed(ok) ==
    /\ pc = "list"
    /\ LET listing == IF ok THEN Listing ELSE <<>>
       IN  /\ poll_listed' = IF watching THEN SeqToSet(listing) ELSE poll_listed
           /\ poll_failed' = {}
           /\ GoFetch(listing, seen_proofs, <<>>)
    /\ UNCHANGED <<store_vars, config_vars, manager_vars, seen_proofs, returned,
                   ever_failed, running, stop, ledger, run, fn_vars, announced, lost, polled>>

\* fetch_file: the document, or None on any failure.
FetchResults(f) == {None} \cup {proofsDir[f]}

\* Python truthiness of the fetched value: None and {} are falsy.
ProofTruthy(proof) == ~IsNone(proof) /\ Val(proof) # EmptyDoc

\* Mutant of SeenAfterFetch: the identifier is marked seen before the fetch is looked at.
SeenAfterFetch_Always(seen, proof_id, proof) == seen \cup {proof_id}

\* poll lines 58-60: the seen set after the fetch of proof_id gave proof.
SeenAfterFetch(seen, proof_id, proof) ==
    IF ProofTruthy(proof) THEN seen \cup {proof_id} ELSE seen

\* poll lines 56-62 for the identifier being fetched, then on with the loop.
PollFetched(proof) ==
    /\ pc = "fetch"
    /\ LET proof_id == Head(proof_ids)
           found == IF ProofTruthy(proof) THEN Append(new_proofs, Val(proof)) ELSE new_proofs
       IN  /\ proof \in FetchResults(proof_id)
           /\ seen_proofs' = SeenAfterFetch(seen_proofs, proof_id, proof)
           /\ returned' = IF watching /\ ProofTruthy(proof)
                          THEN [returned EXCEPT ![proof_id] = @ + 1] ELSE returned
           /\ poll_failed' = IF watching /\ ~ProofTruthy(proof)
                             THEN poll_failed \cup {proof_id} ELSE poll_failed
           /\ ever_failed' = IF watching /\ ~ProofTruthy(proof)
                             THEN ever_failed \cup {proof_id} ELSE ever_failed
           /\ polled' = IF watching /\ ProofTruthy(proof)
                        THEN Append(polled, [id |-> proof_id, doc |-> Val(proof)])
                        ELSE polled
           /\ GoFetch(Tail(proof_ids), seen_proofs', found)
    /\ UNCHANGED <<store_vars, config_vars, manager_vars, poll_listed,
                   running, stop, ledger, run, fn_vars, announced, lost>>

\* fetch_by_cid: the job document, or None on any failure.
JobResults(job_cid) == {None} \cup {Some(j) : j \in StoreJobs(job_cid)}

\* process_proof lines 153-164 for the proof whose job was being fetched, then on.
JobFetched(job) ==
    /\ pc = "job"
    /\ LET proof == Head(new_proofs)
       IN  /\ job \in JobResults(proof.job_cid)
           /\ current_proofs' = Append(current_proofs,
                                       [proof |-> proof, job |-> job])
           /\ processed_proof_ids' =
                  processed_proof_ids \cup {GetStr(proof, "proof_id", "unknown")}
           /\ GoProcess(Tail(new_proofs), current_proofs', processed_proof_ids')
    /\ UNCHANGED <<store_vars, config_vars, epoch_number, current_epoch, current_epoch_id,
                   epoch_started_at, watcher_vars, running, stop, ledger, run, fn_vars,
                   announced, lost, polled>>

\* seal_current_epoch in a tick: publish_epoch raises, the tick backs off.
SealPublishFails(o) ==
    /\ pc = "seal_pub"
    /\ LET r == publish_epoch(Val(pub_doc), o, files, pinned)
       IN  /\ r.raised
           /\ files' = r.files /\ pinned' = r.pinned
    /\ pc' = "backoff" /\ pub_doc' = None
    /\ UNCHANGED <<proofsDir, now, config_vars, manager_vars, watcher_vars, in_start,
                   proof_ids, new_proofs, last_heartbeat, heartbeats, running, stop, ledger, run,
                   fn_vars, history_vars>>

\* seal_current_epoch in a tick: publish_epoch returns the CID.
SealPublished(o) ==
    /\ pc = "seal_pub"
    /\ Len(ledger) < MaxLedger
    /\ LET r == publish_epoch(Val(pub_doc), o, files, pinned)
       IN  /\ ~r.raised
           /\ files' = r.files /\ pinned' = r.pinned
    /\ ledger' = Append(ledger, LedgerEntry(Val(pub_doc), "main"))
    /\ announced' = Append(announced,
                           Announcement("sealed", Val(current_epoch_id),
                                        Some(Len(current_proofs)), Len(ledger')))
    /\ pc' = "seal_ann"
    /\ UNCHANGED <<proofsDir, now, config_vars, manager_vars, watcher_vars, in_start,
                   proof_ids, new_proofs, pub_doc, last_heartbeat, heartbeats, running, stop, run,
                   fn_vars, lost, polled, handed>>

\* The announcement on epochs/sealed returns; _run_loop calls open_new_epoch.
SealAnnounced(post_ok) ==
    /\ pc = "seal_ann"
    /\ lost' = IF post_ok THEN lost ELSE lost + 1
    /\ IF pubsub_publish(post_ok).raised
       THEN MainRaises /\ epoch_number' = epoch_number
       ELSE GoOpen /\ stop' = stop
    /\ UNCHANGED <<store_vars, config_vars, current_epoch, current_epoch_id,
                   epoch_started_at, current_proofs, processed_proof_ids, watcher_vars,
                   running, ledger, run, fn_vars, announced, polled, handed>>

\* The heartbeat's pubsub_publish returns; the tick sleeps.
HeartbeatSent ==
    /\ pc = "hb"
    /\ pc' = "sleep"
    /\ UNCHANGED <<store_vars, config_vars, manager_vars, watcher_vars, in_start,
                   proof_ids, new_proofs, pub_doc, last_heartbeat, heartbeats, running, stop, ledger,
                   run, fn_vars, history_vars>>

(* --------------------------- shutdown tasks --------------------------- *)
\* signal_handler: asyncio.create_task(merlin.stop()).
Signal(i) ==
    /\ Alive
    /\ stop[i].pc = "none"
    /\ \A j \in Signals : j < i => stop[j].pc # "none"
    /\ stop' = [stop EXCEPT ![i].pc = "created",
                            ![i].at = IF IsNone(current_epoch) THEN None
                                      ELSE Some([epoch_id |-> Val(current_epoch_id),
                                                 proofs |-> ProofIdsOf(current_proofs)])]
    /\ UNCHANGED <<store_vars, config_vars, manager_vars, watcher_vars, task_vars,
                   running, ledger, run, fn_vars, history_vars>>

\* stop() up to its first await: seal_current_epoch up to the publish.
StopRun(i) ==
    /\ Alive
    /\ stop[i].pc = "created"
    /\ running' = FALSE
    /\ stop' = [stop EXCEPT ![i] =
                  IF IsNone(current_epoch) THEN [@ EXCEPT !.pc = "done"]
                  ELSE IF SealRaises(current_proofs) THEN [@ EXCEPT !.pc = "failed"]
                  ELSE [@ EXCEPT !.pc = "seal_pub",
                                 !.doc = Some(SealedDoc(Val(current_epoch), current_proofs, now,
                                                        provider_share, network_ops_share))]]
    /\ UNCHANGED <<store_vars, config_vars, manager_vars, watcher_vars, task_vars,
                   ledger, run, fn_vars, history_vars>>

\* stop(): publish_epoch raises; the task ends with the exception.
StopPublishFails(i, o) ==
    /\ Alive
    /\ stop[i].pc = "seal_pub"
    /\ LET r == publish_epoch(Val(stop[i].doc), o, files, pinned)
       IN  /\ r.raised
           /\ files' = r.files /\ pinned' = r.pinned
    /\ stop' = [stop EXCEPT ![i].pc = "failed", ![i].doc = None]
    /\ UNCHANGED <<proofsDir, now, config_vars, manager_vars, watcher_vars, task_vars,
                   running, ledger, run, fn_vars, history_vars>>

StopPublished(i, o) ==
    /\ Alive
    /\ stop[i].pc = "seal_pub"
    /\ Len(ledger) < MaxLedger
    /\ LET r == publish_epoch(Val(stop[i].doc), o, files, pinned)
       IN  /\ ~r.raised
           /\ files' = r.files /\ pinned' = r.pinned
    /\ ledger' = Append(ledger, LedgerEntry(Val(stop[i].doc), "stop"))
    /\ announced' = Append(announced,
                           Announcement("sealed", Val(current_epoch_id),
                                        Some(Len(current_proofs)), Len(ledger')))
    /\ stop' = [stop EXCEPT ![i].pc = "seal_ann"]
    /\ UNCHANGED <<proofsDir, now, config_vars, manager_vars, watcher_vars, task_vars,
                   running, run, fn_vars, lost, polled, handed>>

\* stop(): the announcement on epochs/sealed returns and stop() ends.
StopAnnounced(i, post_ok) ==
    /\ Alive
    /\ stop[i].pc = "seal_ann"
    /\ lost' = IF post_ok THEN lost ELSE lost + 1
    /\ stop' = [stop EXCEPT ![i].pc = IF pubsub_publish(post_ok).raised
                                      THEN "failed" ELSE "done",
                            ![i].doc = None]
    /\ UNCHANGED <<store_vars, config_vars, manager_vars, watcher_vars, task_vars,
                   running, ledger, run, fn_vars, announced, polled, handed>>

(* ---------------------------- environment ----------------------------- *)
Tick ==
    /\ now < StartClock + MaxTime
    /\ now' = now + 1
    /\ UNCHANGED <<proofsDir, files, pinned, config_vars, manager_vars, watcher_vars,
                   task_vars, running, stop, ledger, run, fn_vars, history_vars>>

\* A longer time passes at once: just under, or exactly, a heartbeat interval.
HeartbeatJumps == {HeartbeatInterval - 1, HeartbeatInterval}

Elapse(d) ==
    /\ now + d <= StartClock + MaxTime + HeartbeatInterval
    /\ now' = now + d
    /\ UNCHANGED <<proofsDir, files, pinned, config_vars, manager_vars, watcher_vars,
                   task_vars, running, stop, ledger, run, fn_vars, history_vars>>

\* A worker publishes a proof under a new file name.
WorkerWrite(f, d) ==
    /\ IsNone(proofsDir[f])
    /\ proofsDir' = [proofsDir EXCEPT ![f] = Some(d)]
    /\ UNCHANGED <<files, pinned, now, config_vars, manager_vars, watcher_vars,
                   task_vars, running, stop, ledger, run, fn_vars, history_vars>>

\* A worker writes a file of the proofs directory again, in place.
WorkerCorrect(f, d) ==
    /\ ~IsNone(proofsDir[f])
    /\ Val(proofsDir[f]) # d
    /\ proofsDir' = [proofsDir EXCEPT ![f] = Some(d)]
    /\ UNCHANGED <<files, pinned, now, config_vars, manager_vars, watcher_vars,
                   task_vars, running, stop, ledger, run, fn_vars, history_vars>>

\* The daemon is started again after it ended: a new process, the same store.
Restart ==
    /\ ~Alive
    /\ run < MaxRestarts
    /\ run' = run + 1
    /\ running' = FALSE /\ last_heartbeat' = None /\ heartbeats' = <<>>
    /\ epoch_number' = 0 /\ current_epoch' = None /\ current_epoch_id' = None
    /\ epoch_started_at' = None /\ current_proofs' = <<>> /\ processed_proof_ids' = {}
    /\ seen_proofs' = {}
    /\ pc' = "init" /\ in_start' = TRUE /\ proof_ids' = <<>> /\ new_proofs' = <<>>
    /\ pub_doc' = None
    /\ stop' = [i \in Signals |-> StopIdle]
    /\ returned' = [f \in Files |-> 0] /\ poll_listed' = {} /\ poll_failed' = {}
    /\ ever_failed' = {}
    /\ polled' = <<>> /\ handed' = <<>>
    /\ UNCHANGED <<store_vars, config_vars, ledger, fn_vars, announced, lost>>

Next ==
    \/ Start
    \/ EnsureActiveEpoch
    \/ \E o \in DaemonOutcomes : OpenPublishFails(o)
    \/ \E o \in DaemonOutcomes : OpenPublished(o)
    \/ OpenAnnounced(TRUE)
    \/ Wake
    \/ \E ok \in BOOLEAN : PollListed(ok)
    \/ \E proof \in {None} \cup {proofsDir[f] : f \in Files} : PollFetched(proof)
    \/ \E j \in {None} \cup {Some(d) : d \in StoreJobs("bafyjob1") \cup StoreJobs("bafyjob2")} :
          JobFetched(j)
    \/ \E o \in DaemonOutcomes : SealPublishFails(o)
    \/ \E o \in DaemonOutcomes : SealPublished(o)
    \/ SealAnnounced(TRUE)
    \/ HeartbeatSent
    \/ \E i \in Signals : Signal(i)
    \/ \E i \in Signals : StopRun(i)
    \/ \E i \in Signals, o \in DaemonOutcomes : StopPublishFails(i, o)
    \/ \E i \in Signals, o \in DaemonOutcomes : StopPublished(i, o)
    \/ \E i \in Signals : StopAnnounced(i, TRUE)
    \/ Tick
    \/ \E f \in Files : \E d \in WorkerDocs(f) : WorkerWrite(f, d)

Spec == Init /\ [][Next]_vars

\* The daemon over a proofs directory that stays empty, started again whenever it ends.
NextRestart ==
    \/ Start
    \/ EnsureActiveEpoch
    \/ \E o \in DaemonOutcomes : OpenPublishFails(o)
    \/ \E o \in DaemonOutcomes : OpenPublished(o)
    \/ OpenAnnounced(TRUE)
    \/ Wake
    \/ \E ok \in BOOLEAN : PollListed(ok)
    \/ \E o \in DaemonOutcomes : SealPublishFails(o)
    \/ \E o \in DaemonOutcomes : SealPublished(o)
    \/ SealAnnounced(TRUE)
    \/ HeartbeatSent
    \/ \E i \in Signals : Signal(i)
    \/ \E i \in Signals : StopRun(i)
    \/ \E i \in Signals, o \in DaemonOutcomes : StopPublishFails(i, o)
    \/ \E i \in Signals, o \in DaemonOutcomes : StopPublished(i, o)
    \/ \E i \in Signals : StopAnnounced(i, TRUE)
    \/ Tick
    \/ Restart

SpecRestart == Init /\ [][NextRestart]_vars

\* The daemon while no shutdown signal arrives, with the watcher's history recorded.
NextWatcher ==
    \/ Start
    \/ EnsureActiveEpoch
    \/ \E o \in DaemonOutcomes : OpenPublishFails(o)
    \/ \E o \in DaemonOutcomes : OpenPublished(o)
    \/ OpenAnnounced(TRUE)
    \/ Wake
    \/ \E ok \in BOOLEAN : PollListed(ok)
    \/ \E proof \in {None} \cup {proofsDir[f] : f \in Files} : PollFetched(proof)
    \/ \E j \in {None} \cup {Some(d) : d \in StoreJobs("bafyjob1") \cup StoreJobs("bafyjob2")} :
          JobFetched(j)
    \/ \E o \in DaemonOutcomes : SealPublishFails(o)
    \/ \E o \in DaemonOutcomes : SealPublished(o)
    \/ SealAnnounced(TRUE)
    \/ HeartbeatSent
    \/ Tick
    \/ \E f \in Files : \E d \in WorkerDocs(f) : WorkerWrite(f, d)

InitWatcher == InitDaemon /\ watching = TRUE

SpecWatcher == InitWatcher /\ [][NextWatcher]_vars

\* The daemon over an empty proofs directory and without signals, over a longer time.
NextHeartbeat ==
    \/ Start
    \/ EnsureActiveEpoch
    \/ \E o \in DaemonOutcomes : OpenPublishFails(o)
    \/ \E o \in DaemonOutcomes : OpenPublished(o)
    \/ OpenAnnounced(TRUE)
    \/ Wake
    \/ \E ok \in BOOLEAN : PollListed(ok)
    \/ \E o \in DaemonOutcomes : SealPublishFails(o)
    \/ \E o \in DaemonOutcomes : SealPublished(o)
    \/ SealAnnounced(TRUE)
    \/ HeartbeatSent
    \/ Tick
    \/ \E d \in HeartbeatJumps : Elapse(d)

SpecHeartbeat == Init /\ [][NextHeartbeat]_vars

\* The daemon without signals over a proofs directory of three files, one of which
\* may hold a malformed document, one a document its worker later corrects and one a
\* second copy of a proof.  The
\* store answers every request but the fetch of a proof, which may fail.
IntakeDocs(f) == IF f = "a" THEN {ProofBadHash, ProofP1}
                 ELSE IF f = "b" THEN {ProofNoSig, ProofP2} ELSE {ProofP4, ProofP1}
Corrections(f) == IF f = "b" THEN {ProofP3} ELSE {}

NextIntake ==
    \/ Start
    \/ EnsureActiveEpoch
    \/ OpenPublished(AllGood)
    \/ OpenAnnounced(TRUE)
    \/ Wake
    \/ PollListed(TRUE)
    \/ \E proof \in {None} \cup {proofsDir[f] : f \in Files} : PollFetched(proof)
    \/ \E j \in {Some(d) : d \in StoreJobs("bafyjob1") \cup StoreJobs("bafyjob2")} :
          JobFetched(j)
    \/ SealPublished(AllGood)
    \/ SealAnnounced(TRUE)
    \/ HeartbeatSent
    \/ Tick
    \/ \E f \in Files : \E d \in IntakeDocs(f) : WorkerWrite(f, d)
    \/ \E f \in Files : \E d \in Corrections(f) : WorkerCorrect(f, d)

SpecIntake == InitWatcher /\ [][NextIntake]_vars

\* The daemon without signals while the store answers every request, over proofs
\* that process_proof accepts.  The event loop resumes the main task whenever the
\* request or the sleep it awaits has completed.
SealDocs(f) == IF f = "a" THEN {ProofP1, ProofHexId} ELSE IF f = "b" THEN {ProofP2} ELSE {}

MainStep ==
    \/ Start
    \/ EnsureActiveEpoch
    \/ OpenPublished(AllGood)
    \/ OpenAnnounced(TRUE)
    \/ Wake
    \/ PollListed(TRUE)
    \/ \E proof \in {proofsDir[f] : f \in Files} : PollFetched(proof)
    \/ \E j \in {Some(d) : d \in StoreJobs("bafyjob1") \cup StoreJobs("bafyjob2")} :
          JobFetched(j)
    \/ SealPublished(AllGood)
    \/ SealAnnounced(TRUE)
    \/ HeartbeatSent

NextSealLive ==
    \/ MainStep
    \/ Tick
    \/ \E f \in Files : \E d \in SealDocs(f) : WorkerWrite(f, d)

SpecSealLive == Init /\ [][NextSealLive]_vars /\ WF_vars(MainStep)

\* The daemon over an empty proofs directory while the POST of an announcement may
\* fail.
NextPubsub ==
    \/ Start
    \/ EnsureActiveEpoch
    \/ \E o \in DaemonOutcomes : OpenPublishFails(o)
    \/ \E o \in DaemonOutcomes : OpenPublished(o)
    \/ \E post_ok \in BOOLEAN : OpenAnnounced(post_ok)
    \/ Wake
    \/ \E ok \in BOOLEAN : PollListed(ok)
    \/ \E o \in DaemonOutcomes : SealPublishFails(o)
    \/ \E o \in DaemonOutcomes : SealPublished(o)
    \/ \E post_ok \in BOOLEAN : SealAnnounced(post_ok)
    \/ HeartbeatSent
    \/ \E i \in Signals : Signal(i)
    \/ \E i \in Signals : StopRun(i)
    \/ \E i \in Signals, o \in DaemonOutcomes : StopPublishFails(i, o)
    \/ \E i \in Signals, o \in DaemonOutcomes : StopPublished(i, o)
    \/ \E i \in Signals, post_ok \in BOOLEAN : StopAnnounced(i, post_ok)
    \/ Tick

SpecPubsub == Init /\ [][NextPubsub]_vars

(* ------------------ pure functions checked on their own --------------- *)
\* open_new_epoch's document for every value of the manager's counter.
OpenDocApply ==
    /\ IsNone(fn_out)
    /\ fn_out' = Some(NewEpochDoc(NextEpochNumber(Val(fn_in)), now))
    /\ UNCHANGED <<store_vars, config_vars, manager_vars, watcher_vars, task_vars,
                   running, stop, ledger, run, fn_in, history_vars>>

InitNaming ==
    /\ InitProcess /\ DefaultConfig /\ watching = FALSE
    /\ fn_in \in {Some(n) : n \in 0..MaxNameNumber} /\ fn_out = None

SpecNaming == InitNaming /\ [][OpenDocApply]_vars

\* _compute_settlements for every accumulator of up to MaxAccum items and every pair
\* of shares load_config may read from the environment.
ShareValues == {DefaultNetworkOpsShare, DefaultProviderShare, DefaultProviderShare + 5}
SettleJobs == {None, Some(MkJob("1.00")), Some(MkJob("0.40")), Some(MkJob("0.60")),
               Some(MkJob("abc")), Some(JobNoPayment), Some(JobNoAmount),
               Some(JobBadPayment), Some(EmptyDoc)}
SettleItems == {[proof |-> p, job |-> j] : p \in {ProofP1, ProofP2, ProofP4}, j \in SettleJobs}
Accumulators == UNION {[1..n -> SettleItems] : n \in 0..MaxAccum}

SettleApply ==
    /\ IsNone(fn_out)
    /\ ~SettlementsRaise(Val(fn_in))
    /\ fn_out' = Some(compute_settlements(Val(fn_in), provider_share, network_ops_share))
    /\ UNCHANGED <<store_vars, config_vars, manager_vars, watcher_vars, task_vars,
                   running, stop, ledger, run, fn_in, history_vars>>

SettleRaises ==
    /\ IsNone(fn_out)
    /\ SettlementsRaise(Val(fn_in))
    /\ fn_out' = Some([raised |-> TRUE])
    /\ UNCHANGED <<store_vars, config_vars, manager_vars, watcher_vars, task_vars,
                   running, stop, ledger, run, fn_in, history_vars>>

NextSettle == SettleApply \/ SettleRaises

InitSettle ==
    /\ InitProcess /\ watching = FALSE
    /\ provider_share \in ShareValues /\ network_ops_share \in ShareValues
    /\ fn_in \in {Some(a) : a \in Accumulators} /\ fn_out = None

SpecSettle == InitSettle /\ [][NextSettle]_vars

\* validate_proof for a well-formed proof with at most one field taken away, every
\* confidence of ConfidenceValues (hundredths) and every provider of ProviderValues.
TopFields == {"type", "version", "proof_id", "job_cid", "output_cid", "metrics",
              "provider", "timestamp", "proof_hash", "sig"}
MetricFields == {"inference_seconds", "confidence"}
ConfidenceValues == {0 - 1, 0, 50, 100, 101}
ProviderValues == {"alice.eth", "alice", "alice.com"}

ProofVariant(missing, conf, provider) ==
    LET base == [MkProof("p1", provider, "bafyjob1") EXCEPT !.metrics.confidence = conf]
    IN  IF missing \in TopFields THEN WithoutKey(base, missing)
        ELSE IF missing \in MetricFields
        THEN [base EXCEPT !.metrics = WithoutKey(@, missing)]
        ELSE base

ProofVariants ==
    {ProofVariant(m, c, p) : m \in TopFields \cup MetricFields \cup {"none"},
                             c \in ConfidenceValues, p \in ProviderValues}

ValidateApply ==
    /\ IsNone(fn_out)
    /\ fn_out' = Some(validate_proof(Val(fn_in)))
    /\ UNCHANGED <<store_vars, config_vars, manager_vars, watcher_vars, task_vars,
                   running, stop, ledger, run, fn_in, history_vars>>

InitValidate ==
    /\ InitProcess /\ DefaultConfig /\ watching = FALSE
    /\ fn_in \in {Some(p) : p \in ProofVariants} /\ fn_out = None

SpecValidate == InitValidate /\ [][ValidateApply]_vars

\* compute_merkle_root for every list of up to MaxItems identifiers and every
\* reordering of it.
MerkleIds == {"0xab", "0xabc", "p1", "p2", "p3"}
MerkleLists == UNION {[1..n -> MerkleIds] : n \in 0..MaxItems}
Reorderings(items) ==
    {[i \in 1..Len(items) |-> items[f[i]]] : f \in Permutations(1..Len(items))}

\* The root, or that the call raised.
MerkleResult(items) ==
    IF MerkleRaises(items) THEN [raised |-> TRUE, root |-> None]
    ELSE [raised |-> FALSE, root |-> Some(compute_merkle_root(items))]

MerkleApply ==
    /\ IsNone(fn_out)
    /\ fn_out' = Some([of_items |-> MerkleResult(Val(fn_in).items),
                       of_permuted |-> MerkleResult(Val(fn_in).permuted)])
    /\ UNCHANGED <<store_vars, config_vars, manager_vars, watcher_vars, task_vars,
                   running, stop, ledger, run, fn_in, history_vars>>

InitMerkle ==
    /\ InitProcess /\ DefaultConfig /\ watching = FALSE
    /\ fn_in \in {Some([items |-> l, permuted |-> q]) : l \in MerkleLists, q \in MerkleLists}
    /\ Val(fn_in).permuted \in Reorderings(Val(fn_in).items)
    /\ fn_out = None

SpecMerkle == InitMerkle /\ [][MerkleApply]_vars

(* ----------------------------- properties ----------------------------- *)
\* The ledger is the sequence of publish_epoch calls that returned a CID.
LedgerIdx == 1..Len(ledger)
IsSealedEntry(i) == ledger[i].doc.status = "sealed"
IsOpenEntry(i) == ledger[i].doc.status = "active"

\* C1: once a sealed document was published for an epoch_id, no later publish_epoch
\* writes to the path of that epoch_id.
C1_SealedNeverRewritten ==
    \A i, j \in LedgerIdx :
        (i < j /\ IsSealedEntry(i)) => ledger[j].doc.epoch_id # ledger[i].doc.epoch_id

\* C2: a proof_id is in the proofs list of the sealed documents of at most one epoch.
C2_ProofInOneSealedEpoch ==
    \A i, j \in LedgerIdx :
        (IsSealedEntry(i) /\ IsSealedEntry(j)
            /\ ledger[i].doc.epoch_id # ledger[j].doc.epoch_id)
        => SeqToSet(ledger[i].doc.proofs) \cap SeqToSet(ledger[j].doc.proofs) = {}

\* The identifiers of the current poll that its loop has gone past.
PollPassed == poll_listed \ SeqToSet(proof_ids)

DeadlineReached == ~IsNone(epoch_started_at) /\ now - Val(epoch_started_at) >= EpochDuration

\* C5: a seal whose publish fails leaves the manager as it was with the epoch still
\* active and the deadline still reached; the deadline stays reached while the epoch
\* is current; and a tick does not go on to the heartbeat or the sleep with the
\* deadline reached, so the next tick attempts the seal again.
C5_SealFailureRetried ==
    /\ [][(pc = "seal_pub" /\ pc' = "backoff")
            => (/\ manager_vars' = manager_vars
                /\ Val(current_epoch').status = "active"
                /\ DeadlineReached')]_vars
    /\ [][(DeadlineReached /\ epoch_started_at' = epoch_started_at)
            => DeadlineReached']_vars
    /\ [][(pc \in {"list", "fetch", "job"} /\ pc' \in {"hb", "sleep"})
            => ~DeadlineReached]_vars

\* C5 witness: the tick backs off after a failed seal of the current epoch.
C5_Witness ==
    /\ pc = "backoff" /\ DeadlineReached
    /\ ~IsNone(current_epoch) /\ Val(current_epoch).epoch_number = epoch_number
    /\ \A i \in LedgerIdx : ~(IsSealedEntry(i) /\ ledger[i].doc.epoch_number = epoch_number)

\* C6: when publish_snapshot has returned a CID, the mutable path holds that CID, the
\* CID is pinned, and the copy request carried the source and the destination.
C6_PathResolvesAfterPublish ==
    pc \in {"open_ann", "seal_ann"} =>
        LET doc == Val(pub_doc)
            path == CanonicalPath(EpochsDir, doc.epoch_id)
        IN  /\ Len(CpParams(CidOf(doc), path)) = 2
            /\ path \in DOMAIN files /\ files[path] = CidOf(doc)
            /\ CidOf(doc) \in pinned

\* C7: the epoch_number of the documents published on open strictly increases over
\* all runs of the daemon against the same store.
C7_EpochNumberIncreasesAcrossRestart ==
    \A i, j \in LedgerIdx :
        (i < j /\ IsOpenEntry(i) /\ IsOpenEntry(j))
        => ledger[i].doc.epoch_number < ledger[j].doc.epoch_number

\* C8: within one run, each document published on open has a greater epoch_number
\* than every document published on open before it.
C8_EpochNumberIncreasesInRun ==
    \A i, j \in LedgerIdx :
        (i < j /\ IsOpenEntry(i) /\ IsOpenEntry(j) /\ ledger[i].run = ledger[j].run)
        => ledger[i].doc.epoch_number < ledger[j].doc.epoch_number

\* C8 witness: two opens were published with a failed open between them.
C8_Witness ==
    \E i, j \in LedgerIdx :
        /\ i < j /\ IsOpenEntry(i) /\ IsOpenEntry(j)
        /\ ledger[j].doc.epoch_number = ledger[i].doc.epoch_number + 2

\* The phonetic alphabet as section 6 and the glossary list it.
NatoTable == <<"Alpha", "Bravo", "Charlie", "Delta", "Echo", "Foxtrot", "Golf", "Hotel",
               "India", "Juliet", "Kilo", "Lima", "Mike", "November", "Oscar", "Papa",
               "Quebec", "Romeo", "Sierra", "Tango", "Uniform", "Victor", "Whiskey",
               "X-ray", "Yankee", "Zulu">>

\* C9: the document opened for number n has epoch_id "epoch-" followed by the decimal
\* digits of n padded with zeros to four, and name NatoTable[n mod 26]; a fresh
\* manager opens number 1, "epoch-0001", "Bravo"; 25 is "Zulu" and 26 is "Alpha".
C9_EpochIdAndName ==
    ~IsNone(fn_out) =>
        LET doc == Val(fn_out)
            n == doc.epoch_number
            digits == SubSeq(doc.epoch_id, 7, Len(doc.epoch_id))
        IN  /\ n = Val(fn_in) + 1
            /\ SubSeq(doc.epoch_id, 1, 6) = "epoch-"
            /\ AllDigits(digits) /\ StrToInt(digits) = n
            /\ Len(digits) >= 4 /\ (n < 10000 => Len(digits) = 4)
            /\ doc.name = NatoTable[(n % 26) + 1]
            /\ Val(fn_in) = 0 => (n = 1 /\ doc.epoch_id = "epoch-0001" /\ doc.name = "Bravo")
            /\ n = 25 => doc.name = "Zulu"
            /\ n = 26 => (doc.name = "Alpha" /\ doc.epoch_id = "epoch-0026")

\* C9 witness: the epoch after Zulu has been opened.
C9_Witness == ~IsNone(fn_out) /\ Val(fn_out).epoch_number = 26 /\ Val(fn_out).name = "Alpha"

\* C10: provider_pool + network_ops = total_volume and network_ops =
\* total_volume x (1 - provider_share), in exact arithmetic, for every accepted
\* configuration.
C10_SettlementConservation ==
    (~IsNone(fn_out) /\ ~Has(Val(fn_out), "raised")) =>
        LET st == Val(fn_out)
        IN  /\ st.provider_pool + st.network_ops = st.total_volume
            /\ st.network_ops = st.total_volume_cents * (ShareScale - provider_share)

RECURSIVE SumValues(_, _)
SumValues(f, S) == IF S = {} THEN 0
                   ELSE LET x == CHOOSE y \in S : TRUE IN f[x] + SumValues(f, S \ {x})

SettleDone == ~IsNone(fn_out) /\ ~Has(Val(fn_out), "raised")

\* C11: the values of settlements.providers sum to settlements.provider_pool, and
\* total_volume is the sum of the rewards of the accumulator's items.
C11_ProviderSum ==
    SettleDone =>
        LET st == Val(fn_out)
            acc == Val(fn_in)
            rewards == [i \in 1..Len(acc) |-> RewardCents(acc[i])]
        IN  /\ SumValues(st.providers, DOMAIN st.providers) = st.provider_pool
            /\ st.total_volume_cents = SumValues(rewards, 1..Len(acc))
            /\ st.total_volume = st.total_volume_cents * ShareScale

\* C11 witness: settlements of two proofs of one provider with different rewards.
C11_Witness ==
    /\ SettleDone /\ Len(Val(fn_in)) = 2
    /\ Val(fn_out).provider_count = 1
    /\ RewardCents(Val(fn_in)[1]) # RewardCents(Val(fn_in)[2])
    /\ Val(fn_out).provider_pool > 0

\* The reward section 4.4 gives an accumulator item, in cents.
ClaimedReward(item) ==
    LET job == item.job
    IN  IF /\ ~IsNone(job) /\ Has(Val(job), "payment")
           /\ Val(job).payment.kind = "object"
           /\ Has(Val(job).payment.fields, "amount")
           /\ ~IsNone(ParseFloatCents(Val(job).payment.fields.amount))
        THEN Val(ParseFloatCents(Val(job).payment.fields.amount))
        ELSE DefaultRewardCents

\* C12: settlement computation never fails, and each item's reward is the job's
\* payment.amount when the job was fetched and the amount parses, else 0.10.
C12_RewardDefaults ==
    ~IsNone(fn_out) =>
        LET acc == Val(fn_in)
            claimed == [i \in 1..Len(acc) |-> ClaimedReward(acc[i])]
        IN  /\ ~Has(Val(fn_out), "raised")
            /\ Val(fn_out).total_volume_cents = SumValues(claimed, 1..Len(acc))

\* The proof_ids accepted, as far as this state knows, into the epoch that was
\* current when signal i arrived.
AcceptedInto(i) ==
    SeqToSet(Val(stop[i].at).proofs)
        \cup (IF current_epoch_id = Some(Val(stop[i].at).epoch_id)
              THEN SeqToSet(ProofIdsOf(current_proofs)) ELSE {})

\* C13: when the daemon has stopped after a shutdown signal that arrived while the
\* current epoch held an accepted proof, a sealed document of that epoch holding
\* every proof accepted into it has been published.
C13_ShutdownSealsProofs ==
    \A i \in Signals :
        (/\ ~Alive
         /\ ~IsNone(stop[i].at)
         /\ Val(stop[i].at).proofs # <<>>)
        => \E k \in LedgerIdx :
               /\ IsSealedEntry(k)
               /\ ledger[k].doc.epoch_id = Val(stop[i].at).epoch_id
               /\ AcceptedInto(i) \subseteq SeqToSet(ledger[k].doc.proofs)

\* Some stop() task has run its first statements / has published its seal.
HandlerStarted == \E i \in Signals : stop[i].pc \notin {"none", "created"}
ShutdownSealed == \E k \in LedgerIdx : ledger[k].by = "stop" /\ ledger[k].run = run

\* C14: once the shutdown handler has started, no open_new_epoch publish occurs, and
\* once the shutdown seal is published no epoch document is published at all.
C14_ShutdownTerminal ==
    [][/\ (HandlerStarted /\ Len(ledger') > Len(ledger))
            => ledger'[Len(ledger')].doc.status = "sealed"
       /\ ShutdownSealed => ledger' = ledger]_vars

\* The providers of the proofs with the given proof_ids, from the documents workers write.
ProvidersOfIds(ids) ==
    {d.provider : d \in {w \in UNION {WorkerDocs(f) : f \in Files} :
                             Has(w, "proof_id") /\ w.proof_id \in ids}}

\* A sealed document whose counts, settlements and root agree with its proofs list.
OneSnapshot(doc) ==
    /\ doc.status = "sealed"
    /\ doc.jobs_count = Len(doc.proofs) /\ doc.proofs_count = Len(doc.proofs)
    /\ doc.merkle_root = Some(IF doc.proofs = <<>> THEN ZeroRoot
                              ELSE compute_merkle_root(doc.proofs))
    /\ Val(doc.settlements).provider_count = Cardinality(ProvidersOfIds(SeqToSet(doc.proofs)))
    /\ DOMAIN Val(doc.settlements).providers = ProvidersOfIds(SeqToSet(doc.proofs))
    /\ doc.total_volume_usdc = FormatCents(Val(doc.settlements).total_volume_cents)
    /\ Val(doc.settlements).total_volume_cents >= DefaultRewardCents * Len(doc.proofs)

\* C15: a sealed document's proofs, jobs_count, settlements and merkle_root come from
\* one snapshot of the accumulator taken when sealing starts; a proof appended while
\* the seal's publish is suspended leaves the document unchanged, and the document
\* published is the one built when sealing started.
C15_SealSnapshot ==
    /\ [](\A k \in LedgerIdx : IsSealedEntry(k) => OneSnapshot(ledger[k].doc))
    /\ [](\A i \in Signals : stop[i].pc = "seal_pub" => OneSnapshot(Val(stop[i].doc)))
    /\ [](pc = "seal_pub" => OneSnapshot(Val(pub_doc)))
    /\ [][\A i \in Signals :
            stop[i].pc = "seal_pub" =>
                /\ current_proofs' # current_proofs => stop'[i].doc = stop[i].doc
                /\ stop'[i].pc = "seal_ann"
                     => (/\ Len(ledger') = Len(ledger) + 1
                         /\ ledger'[Len(ledger')].doc = Val(stop[i].doc))]_vars

\* C15 witness: the shutdown seal of the current epoch has been published without the
\* proof the loop appended while that publish was suspended.
C15_Witness ==
    \E k \in LedgerIdx :
        /\ IsSealedEntry(k) /\ ledger[k].by = "stop"
        /\ current_epoch_id = Some(ledger[k].doc.epoch_id)
        /\ ledger[k].doc.proofs = <<"p1">>
        /\ ProofIdsOf(current_proofs) = <<"p1", "p2">>

\* The main task is suspended inside poll, process_proof, seal_current_epoch or
\* open_new_epoch.
TickInEpochWork == pc \in {"list", "fetch", "job", "seal_pub", "seal_ann", "open_pub", "open_ann"}
StopSealing(i) == stop[i].pc \in {"seal_pub", "seal_ann"}

\* C16: no stop() task is inside seal_current_epoch while the tick is suspended in
\* poll, process_proof, seal_current_epoch or open_new_epoch, and no two tasks are
\* sealing the same epoch together.
C16_OneTaskAtATime ==
    /\ \A i \in Signals : StopSealing(i) => ~TickInEpochWork
    /\ \A i, j \in Signals :
          (i # j /\ StopSealing(i) /\ StopSealing(j))
          => Val(stop[i].doc).epoch_id # Val(stop[j].doc).epoch_id

\* C17: any two consecutive heartbeats of a process are at least 30 s apart.
C17_HeartbeatSpacing ==
    \A k \in 1..(Len(heartbeats) - 1) :
        heartbeats[k + 1] - heartbeats[k] >= HeartbeatInterval

\* C17 witness: the second heartbeat of the process is being published.
C17_Witness ==
    /\ Len(heartbeats) = 2 /\ pc = "hb"
    /\ heartbeats[2] = now /\ last_heartbeat = Some(now)

\* C18: once in _run_loop the main task ends only at the `while self.running` check
\* after a sleep, with running false, which only stop() makes it; a tick that raised
\* is in the back-off sleep, and the back-off is followed by the next tick while
\* running holds.
C18_LoopSurvivesErrors ==
    /\ [][(~in_start /\ Alive /\ ~Alive')
            => (pc \in {"sleep", "backoff"} /\ ~running /\ pc' = "exited")]_vars
    /\ [][(pc = "backoff" /\ pc' # "backoff")
            => (IF running THEN pc' = "list" ELSE pc' = "exited")]_vars
    /\ [][(~in_start /\ pc \in {"open_pub", "seal_pub"} /\ pc' # pc)
            => pc' \in {"open_ann", "seal_ann", "backoff"}]_vars
    /\ []((~in_start /\ ~running) => HandlerStarted)

\* C18 witness: a tick whose open_new_epoch raised is in its back-off sleep, no
\* shutdown requested.
C18_Witness ==
    /\ pc = "backoff" /\ running /\ ~HandlerStarted
    /\ ~IsNone(current_epoch) /\ epoch_number > Val(current_epoch).epoch_number

\* C19: the daemon ends only on an explicit shutdown signal; a store failure while
\* start() publishes the initial epoch does not end it.
C19_ExitsOnlyOnSignal ==
    /\ pc # "crashed"
    /\ pc = "exited" => HandlerStarted

\* What section 3 and the docstring of validate_proof require of a proof.
LacksRequiredField(proof) ==
    \/ \E k \in TopFields : ~Has(proof, k)
    \/ Has(proof, "metrics") /\ \E k \in MetricFields : ~Has(proof.metrics, k)

\* C20: validate_proof rejects every proof that lacks a required field, whose
\* confidence is outside [0,1], or whose provider does not end in ".eth".
C20_SchemaLaw ==
    ~IsNone(fn_out) =>
        LET proof == Val(fn_in)
        IN  (\/ LacksRequiredField(proof)
             \/ (Has(proof, "metrics") /\ Has(proof.metrics, "confidence")
                   /\ (proof.metrics.confidence < 0 \/ proof.metrics.confidence > 100))
             \/ (Has(proof, "provider") /\ ~EndsWith(proof.provider, ".eth")))
            => Val(fn_out) = FALSE

\* A document process_proof accepts when called with it alone.
Acceptable(doc) == ~ValidateRaises(doc) /\ validate_proof(doc) /\ TruthyStr(doc, "sig")

\* The proof_id is in the accumulator or in a sealed document.
AcceptedId(pid) ==
    \/ pid \in SeqToSet(ProofIdsOf(current_proofs))
    \/ \E k \in LedgerIdx : IsSealedEntry(k) /\ pid \in SeqToSet(ledger[k].doc.proofs)

\* The main task is past the for loop over the proofs of its last poll.
BatchDone == pc \notin {"list", "fetch", "job"}

\* C21, first half: a file whose first delivered document failed validation is not
\* delivered again, and only delivered documents are accepted, so the document
\* corrected in place is never accepted.
RejectedStaysRejected ==
    /\ \A i, j \in 1..Len(polled) :
          (~Acceptable(polled[i].doc) /\ i # j) => polled[j].id # polled[i].id
    /\ \A k \in 1..Len(current_proofs) :
          \E i \in 1..Len(polled) : polled[i].doc = current_proofs[k].proof
    /\ (\E i \in 1..Len(polled) : polled[i].doc = ProofNoSig) => ~AcceptedId("p3")

\* C21, second half: a proof whose fetch failed and later succeeded, and which
\* process_proof accepts, has been accepted when the tick is past its batch.
FailedFetchAccepted ==
    BatchDone =>
        \A i \in 1..Len(polled) :
            (polled[i].id \in ever_failed /\ Acceptable(polled[i].doc))
            => AcceptedId(polled[i].doc.proof_id)

\* C21: a proof that failed schema validation when first delivered is never accepted
\* later in the process, even when corrected in place, whereas a proof whose fetch
\* failed transiently is accepted once a later fetch succeeds.
C21_RejectedForeverFailedRetried == RejectedStaysRejected /\ FailedFetchAccepted

\* The proof_ids of the documents poll returned that process_proof accepts.
ValidIds == {polled[i].doc.proof_id : i \in {j \in 1..Len(polled) : Acceptable(polled[j].doc)}}

\* A sealed document that counts valid proofs only, each once.
CountsValidOnly(doc) ==
    /\ SeqToSet(doc.proofs) \subseteq ValidIds
    /\ doc.jobs_count = Cardinality(SeqToSet(doc.proofs))
    /\ doc.proofs_count = doc.jobs_count

\* C22: every item of the accumulator is a proof that passed validate_proof and has a
\* non-empty sig, and a sealed document's proofs list and jobs_count count valid
\* proofs only.
C22_NoPartialAcceptance ==
    /\ \A k \in 1..Len(current_proofs) :
          /\ validate_proof(current_proofs[k].proof)
          /\ TruthyStr(current_proofs[k].proof, "sig")
    /\ pc = "seal_pub" => CountsValidOnly(Val(pub_doc))
    /\ \A k \in LedgerIdx : IsSealedEntry(k) => CountsValidOnly(ledger[k].doc)

\* C22 witness: three proofs were delivered, one without sig, and the sealed document
\* holds the other two with jobs_count = 2.
C22_Witness ==
    /\ Len(polled) = 3 /\ \E i \in 1..3 : polled[i].doc = ProofNoSig
    /\ \E k \in LedgerIdx :
          /\ IsSealedEntry(k) /\ ledger[k].doc.jobs_count = 2
          /\ ledger[k].doc.proofs = <<"p1", "p4">>

\* C23: compute_merkle_root gives the same result for a list and for every
\* permutation of it.
C23_MerkleDeterminism ==
    ~IsNone(fn_out) => Val(fn_out).of_permuted = Val(fn_out).of_items

\* C23 witness: the root of three identifiers given in another order.
C23_Witness ==
    /\ ~IsNone(fn_out) /\ ~Val(fn_out).of_items.raised
    /\ Val(fn_in).items = <<"p2", "0xab", "p1">>
    /\ Val(fn_in).permuted = <<"p1", "p2", "0xab">>

\* C24: the root of a one-item list is keccak(leaf || leaf), with leaf the keccak of
\* the identifier.
C24_SingleLeafRoot ==
    (~IsNone(fn_out) /\ Len(Val(fn_in).items) = 1 /\ ~Val(fn_out).of_items.raised
        /\ ~StartsWith(Val(fn_in).items[1], "0x"))
    => LET leaf == Keccak(Utf8(Val(fn_in).items[1]))
       IN  Val(fn_out).of_items.root = Some(<<"0x", Keccak(Concat(leaf, leaf))>>)

\* What section 4.5 and the merkle section give for a seal without proofs.
EmptySealed(doc) ==
    /\ doc.status = "sealed"
    /\ doc.jobs_count = 0 /\ doc.proofs_count = 0
    /\ doc.total_volume_usdc = "0.00"
    /\ doc.merkle_root = Some(<<"0x0000000000000000000000000000000000000000000000000000000000000000">>)
    /\ doc.proofs = <<>>
    /\ Val(doc.settlements).provider_count = 0
    /\ DOMAIN Val(doc.settlements).providers = {}
    /\ Val(doc.settlements).total_volume = 0

\* C25: an epoch sealed with an empty accumulator gives a sealed document with
\* jobs_count = proofs_count = 0, total_volume_usdc "0.00", the all-zero merkle_root,
\* no proofs and settlements without providers.
C25_EmptyEpochSeal ==
    /\ (pc = "seal_pub" /\ current_proofs = <<>>) => EmptySealed(Val(pub_doc))
    /\ \A k \in LedgerIdx :
          (IsSealedEntry(k) /\ ledger[k].doc.proofs = <<>>) => EmptySealed(ledger[k].doc)

\* C25 witness: the loop has published the seal of an epoch that held no proofs.
C25_Witness ==
    \E k \in LedgerIdx :
        /\ IsSealedEntry(k) /\ ledger[k].by = "main"
        /\ ledger[k].doc.jobs_count = 0 /\ ledger[k].doc.epoch_id = "epoch-0001"

\* Epoch number n is current, its deadline is reached, and the bounds of the model
\* leave room for its seal and for the next open.
SealDue(n) ==
    /\ DeadlineReached
    /\ ~IsNone(current_epoch) /\ Val(current_epoch).epoch_number = n
    /\ epoch_number = n /\ epoch_number < MaxEpochNumber
    /\ Len(ledger) + 2 <= MaxLedger

SealedAndReopened(n) ==
    /\ \E k \in LedgerIdx : IsSealedEntry(k) /\ ledger[k].doc.epoch_number = n
    /\ \E k \in LedgerIdx : IsOpenEntry(k) /\ ledger[k].doc.epoch_number = n + 1

\* C26: whenever the seal deadline is reached while store calls succeed, the current
\* epoch is eventually sealed and the next epoch opened, whatever accepted proofs
\* the accumulator holds.
C26_SealLiveness ==
    \A n \in 1..MaxEpochNumber : SealDue(n) ~> SealedAndReopened(n)

\* What open_new_epoch and seal_current_epoch have set when they return.
EpochState == <<current_epoch, current_epoch_id, epoch_started_at, current_proofs,
                processed_proof_ids>>
Published == <<ledger, files, pinned>>

\* C27: the step in which an announcement returns, delivered or not, leaves the
\* published documents and the manager's state as they are, and the caller goes on
\* as after a return: start() into the loop, the tick to its heartbeat, the seal to
\* open_new_epoch, stop() to its end; it never raises to the supervisor.
C27_PubsubFailureHarmless ==
    [][/\ (pc = "open_ann" /\ pc' # pc)
            => (/\ manager_vars' = manager_vars /\ Published' = Published
                /\ pc' \in (IF in_start THEN {"list", "exited"} ELSE {"hb", "sleep"}))
       /\ (pc = "seal_ann" /\ pc' # pc)
            => (/\ EpochState' = EpochState /\ Published' = Published
                /\ pc' = "open_pub")
       /\ \A i \in Signals :
            (stop[i].pc = "seal_ann" /\ stop'[i].pc # "seal_ann")
            => (/\ manager_vars' = manager_vars /\ Published' = Published
                /\ stop'[i].pc \in {"done", "cancelled"})]_vars

\* C27 witness: the announcements of the first open and of the first seal were both
\* lost and the loop is opening the next epoch.
C27_Witness ==
    /\ lost = 2 /\ Len(announced) = 2 /\ pc = "open_pub" /\ epoch_number = 2
    /\ \E k \in LedgerIdx : IsSealedEntry(k) /\ ledger[k].by = "main"

\* C28: stop() publishes a final seal only when the current epoch holds proofs: no
\* sealed document published by stop() has an empty proofs list.
C28_FinalSealOnlyWithProofs ==
    \A k \in LedgerIdx : ledger[k].by = "stop" => ledger[k].doc.proofs # <<>>

PolledDocs == [i \in 1..Len(polled) |-> polled[i].doc]

\* C29: process_proof is called with the proofs poll returned, in order and each
\* once, and when the tick is past its batch it has been called with every one.
C29_EveryPolledProofProcessed ==
    /\ Len(handed) <= Len(polled)
    /\ handed = SubSeq(PolledDocs, 1, Len(handed))
    /\ BatchDone => handed = PolledDocs

\* The epoch after the one with this epoch_id.
NextEpochId(epoch_id) ==
    FormatEpochId(1 + CHOOSE n \in 0..(MaxEpochNumber + 1) : FormatEpochId(n) = epoch_id)

AnnIdx == 1..Len(announced)

\* C30: for every announcement on epochs/sealed of an epoch E, the sealed document
\* of E was published before it and its opened announcement was made before it, and
\* the document and the opened announcement of the epoch after E come after it.
C30_SealingOrder ==
    \A a \in AnnIdx :
        announced[a].topic = "sealed" =>
            LET E == announced[a].epoch_id
            IN  /\ \E k \in 1..announced[a].after :
                      IsSealedEntry(k) /\ ledger[k].doc.epoch_id = E
                /\ \E b \in 1..(a - 1) :
                      announced[b].topic = "opened" /\ announced[b].epoch_id = E
                /\ \A j \in LedgerIdx :
                      (IsOpenEntry(j) /\ ledger[j].doc.epoch_id = NextEpochId(E))
                      => announced[a].after < j
                /\ \A b \in AnnIdx :
                      (announced[b].topic = "opened" /\ announced[b].epoch_id = NextEpochId(E))
                      => a < b

\* The fields a sealed document takes over from the active document it overlays.
KeptFields == {"epoch_id", "epoch_number", "name", "started_at", "controller"}

\* doc overlays an active document that this process published before entry k.
OverlaysOpened(doc, k, r) ==
    \E j \in 1..(k - 1) :
        /\ IsOpenEntry(j) /\ ledger[j].run = r
        /\ \A f \in KeptFields : ledger[j].doc[f] = doc[f]

SealedShape(doc) ==
    /\ doc.status = "sealed"
    /\ doc.jobs_count = Len(doc.proofs) /\ doc.proofs_count = Len(doc.proofs)
    /\ Val(doc.ended_at) >= doc.started_at

\* C31: every sealed document has status "sealed", jobs_count = proofs_count = the
\* length of its proofs list = the size of the accumulator when it was built, ended_at
\* >= started_at, and the epoch_id, epoch_number, name, started_at and controller of
\* the active document it overlays.
C31_SealedDocShape ==
    /\ [](\A k \in LedgerIdx :
            IsSealedEntry(k) => (/\ SealedShape(ledger[k].doc)
                                 /\ OverlaysOpened(ledger[k].doc, k, ledger[k].run)))
    /\ [](pc = "seal_pub" =>
            /\ SealedShape(Val(pub_doc))
            /\ Val(pub_doc).jobs_count = Len(current_proofs)
            /\ \A f \in KeptFields : Val(pub_doc)[f] = Val(current_epoch)[f])
    /\ [][\A i \in Signals :
            (stop[i].pc = "created" /\ stop'[i].pc = "seal_pub") =>
                /\ SealedShape(Val(stop'[i].doc))
                /\ Val(stop'[i].doc).jobs_count = Len(current_proofs)
                /\ \A f \in KeptFields : Val(stop'[i].doc)[f] = Val(current_epoch)[f]]_vars

\* C31 witness: the sealed document of an epoch that held two proofs, sealed one
\* second after it was opened.
C31_Witness ==
    \E k \in LedgerIdx :
        /\ IsSealedEntry(k) /\ ledger[k].doc.jobs_count = 2
        /\ ledger[k].doc.proofs = <<"p1", "p2">>
        /\ ledger[k].doc.ended_at = Some(ledger[k].doc.started_at + 1)

RECURSIVE IsSubsequence(_, _)
IsSubsequence(s, t) ==
    IF s = <<>> THEN TRUE
    ELSE IF t = <<>> THEN FALSE
    ELSE IF Head(s) = Head(t) THEN IsSubsequence(Tail(s), Tail(t))
    ELSE IsSubsequence(s, Tail(t))

RECURSIVE SealedProofsFrom(_)
SealedProofsFrom(k) ==
    IF k > Len(ledger) THEN <<>>
    ELSE (IF IsSealedEntry(k) THEN ledger[k].doc.proofs ELSE <<>>) \o SealedProofsFrom(k + 1)

CurrentSealed ==
    \E k \in LedgerIdx : IsSealedEntry(k) /\ Some(ledger[k].doc.epoch_id) = current_epoch_id

\* The proof_ids of the sealed documents in the order of their publication, then
\* those of the accumulator of the epoch not sealed yet.
SealedThenCurrent ==
    SealedProofsFrom(1)
        \o (IF CurrentSealed THEN <<>>
            ELSE [i \in 1..Len(current_proofs) |-> current_proofs[i].proof.proof_id])

\* The documents process_proof has returned for: all it was called with but the one
\* whose job is being fetched.
Returned == IF pc = "job" THEN SubSeq(handed, 1, Len(handed) - 1) ELSE handed

\* The proof_ids of the documents process_proof returned for that it accepts unless
\* they are duplicates, in the order of the calls.
AcceptableIds ==
    LET acc == SelectSeq(Returned, Acceptable)
    IN  [i \in 1..Len(acc) |-> acc[i].proof_id]

FileRank(f) == CHOOSE i \in 1..Len(FileOrder) : FileOrder[i] = f

\* The proofs the poll in progress has found are the last ones poll returned, in the
\* order of the listing, before the identifier being fetched.
PollInListingOrder ==
    pc = "fetch" =>
        LET n == Len(new_proofs)
            last == SubSeq(polled, Len(polled) - n + 1, Len(polled))
        IN  /\ n <= Len(polled)
            /\ [i \in 1..n |-> last[i].doc] = new_proofs
            /\ \A i \in 1..n : FileRank(last[i].id) < FileRank(Head(proof_ids))
            /\ \A i, j \in 1..n : i < j => FileRank(last[i].id) < FileRank(last[j].id)

\* C32: the proofs lists of the sealed documents, and the accumulator after them, hold
\* the accepted proof_ids in the order of the calls of process_proof that accepted
\* them, and every proof_id those calls could accept; process_proof is called in the
\* order poll returned the proofs, tick after tick, and within a poll that is the
\* order of the store's listing.
C32_AcceptanceOrder ==
    /\ IsSubsequence(SealedThenCurrent, AcceptableIds)
    /\ SeqToSet(AcceptableIds) = SeqToSet(SealedThenCurrent)
    /\ Len(AcceptableIds) = Cardinality(SeqToSet(AcceptableIds))
          => SealedThenCurrent = AcceptableIds
    /\ IsSubsequence(handed, PolledDocs)
    /\ PollInListingOrder
    /\ pc = "seal_pub" =>
          Val(pub_doc).proofs = [i \in 1..Len(current_proofs) |-> current_proofs[i].proof.proof_id]

\* C32 witness: a sealed document of two proofs accepted in one tick, and a third
\* proof accepted by a later tick into the next epoch.
C32_Witness ==
    /\ \E k \in LedgerIdx : IsSealedEntry(k) /\ ledger[k].doc.proofs = <<"p1", "p2">>
    /\ SealedThenCurrent = <<"p1", "p2", "p4">>
    /\ Len(polled) = 3 /\ polled[1].id = "a" /\ polled[2].id = "b" /\ polled[3].id = "c"

\* C33: providers has exactly one entry per distinct provider among the accumulator's
\* proofs, each the sum of reward x provider_share over that provider's proofs, and
\* provider_count is the number of distinct providers; two proofs of one provider with
\* rewards 0.40 and 0.60 at share 0.75 give one entry of 0.75.
C33_ProviderEntries ==
    SettleDone =>
        LET st == Val(fn_out)
            acc == Val(fn_in)
            names == {acc[i].proof.provider : i \in 1..Len(acc)}
            shareOf(p) == [i \in 1..Len(acc) |->
                              IF acc[i].proof.provider = p
                              THEN RewardCents(acc[i]) * provider_share ELSE 0]
        IN  /\ DOMAIN st.providers = names
            /\ st.provider_count = Cardinality(names)
            /\ \A p \in names : st.providers[p] = SumValues(shareOf(p), 1..Len(acc))
            /\ (/\ acc = <<[proof |-> ProofP2, job |-> Some(MkJob("0.40"))],
                           [proof |-> ProofP4, job |-> Some(MkJob("0.60"))]>>
                /\ provider_share = 75)
               => (/\ st.provider_count = 1
                   /\ st.providers = [p \in {"bob.eth"} |-> 75 * ShareScale])

\* C33 witness: the settlements of two proofs of bob.eth with rewards 0.40 and 0.60 at
\* share 0.75.
C33_Witness ==
    /\ SettleDone /\ provider_share = 75
    /\ Val(fn_in) = <<[proof |-> ProofP2, job |-> Some(MkJob("0.40"))],
                      [proof |-> ProofP4, job |-> Some(MkJob("0.60"))]>>
    /\ Val(fn_out).providers["bob.eth"] = 7500

\* A proof process_proof has to reject: a duplicate of the epoch, a schema failure,
\* or a proof without sig.
IsRejection(doc, processed) ==
    \/ GetStr(doc, "proof_id", "unknown") \in processed
    \/ ProofErrors(doc) # {}
    \/ ~(Has(doc, "sig") /\ doc.sig # "")

\* The documents process_proof is called with in this step.
CalledNow == SubSeq(handed', Len(handed) + 1, Len(handed'))

\* The accumulator and the processed set change together: emptied by an open, or
\* extended by the proof whose job was being fetched.
AccumulatorStep ==
    (current_proofs' # current_proofs \/ processed_proof_ids' # processed_proof_ids) =>
        \/ pc = "open_pub" /\ current_proofs' = <<>> /\ processed_proof_ids' = {}
        \/ /\ pc = "job"
           /\ ~IsRejection(Head(new_proofs), processed_proof_ids)
           /\ Len(current_proofs') = Len(current_proofs) + 1
           /\ SubSeq(current_proofs', 1, Len(current_proofs)) = current_proofs
           /\ current_proofs'[Len(current_proofs')].proof = Head(new_proofs)
           /\ processed_proof_ids' = processed_proof_ids \cup {Head(new_proofs).proof_id}

NoRepeats(s) == \A i, j \in 1..Len(s) : i # j => s[i] # s[j]

\* C35: the processed set is the set of the proof_ids of the accumulator's items, no
\* two items of the accumulator have the same proof_id, and no sealed document lists
\* a proof_id twice.
C35_ProcessedIsAccumulator ==
    LET ids == [i \in 1..Len(current_proofs) |-> current_proofs[i].proof.proof_id]
    IN  /\ processed_proof_ids = SeqToSet(ids)
        /\ NoRepeats(ids)
        /\ \A k \in LedgerIdx : IsSealedEntry(k) => NoRepeats(ledger[k].doc.proofs)
        /\ pc = "seal_pub" => NoRepeats(Val(pub_doc).proofs)
        /\ \A i \in Signals : stop[i].pc = "seal_pub" => NoRepeats(Val(stop[i].doc).proofs)

\* C35 witness: two files holding the same proof were both delivered in the first
\* epoch, which holds the proof once.
C35_Witness ==
    /\ proofsDir["a"] = Some(ProofP1) /\ proofsDir["b"] = Some(ProofP1)
    /\ seen_proofs = {"a", "b"} /\ epoch_number = 1 /\ pc \in {"hb", "sleep"}
    /\ Len(current_proofs) = 1 /\ processed_proof_ids = {"p1"}

\* The documents published on open by process r before ledger entry j.
OpensBefore(j, r) == {i \in 1..(j - 1) : IsOpenEntry(i) /\ ledger[i].run = r}

\* C36: whenever a current epoch exists and no open is in progress, epoch_number is
\* the epoch_number of the current epoch document, and each document a process
\* publishes on open has the number after that of the one it published before.
C36_EpochNumbersConsecutive ==
    /\ (~IsNone(current_epoch) /\ pc # "open_pub")
          => epoch_number = Val(current_epoch).epoch_number
    /\ \A j \in LedgerIdx :
          IsOpenEntry(j) =>
              \/ OpensBefore(j, ledger[j].run) = {} /\ ledger[j].doc.epoch_number = 1
              \/ \E i \in OpensBefore(j, ledger[j].run) :
                    ledger[j].doc.epoch_number = ledger[i].doc.epoch_number + 1

\* The proof_ids listed by the sealed documents process r published for an epoch_id.
SealedIdsOf(epoch_id, r) ==
    UNION {SeqToSet(ledger[k].doc.proofs) :
              k \in {i \in LedgerIdx : /\ IsSealedEntry(i) /\ ledger[i].run = r
                                       /\ ledger[i].doc.epoch_id = epoch_id}}

AccumulatorIds == {current_proofs[i].proof.proof_id : i \in 1..Len(current_proofs)}

\* The process has ended with its current epoch sealed.
EndedSealed ==
    /\ ~Alive /\ ~IsNone(current_epoch)
    /\ \E k \in LedgerIdx : /\ IsSealedEntry(k) /\ ledger[k].run = run
                            /\ ledger[k].doc.epoch_id = Val(current_epoch_id)

\* C37: every accepted proof is listed by a sealed document of the epoch it was
\* accepted into once that epoch is sealed: when the next epoch replaces the
\* accumulator every proof of it is in a sealed document of the epoch left, and when
\* the process has ended with its current epoch sealed every proof of the accumulator
\* is in a sealed document of that epoch.
C37_NoAcceptedProofDropped ==
    /\ [][(pc = "open_pub" /\ pc' = "open_ann" /\ ~IsNone(current_epoch))
            => AccumulatorIds \subseteq SealedIdsOf(Val(current_epoch_id), run)]_vars
    /\ [](EndedSealed => AccumulatorIds \subseteq SealedIdsOf(Val(current_epoch_id), run))

\* C38: the jobs_count of every announcement on epochs/sealed is the jobs_count of the
\* sealed document whose publish it follows.
C38_AnnouncedJobsCount ==
    \A a \in AnnIdx :
        announced[a].topic = "sealed" =>
            /\ IsSealedEntry(announced[a].after)
            /\ announced[a].jobs_count = Some(ledger[announced[a].after].doc.jobs_count)

====
